---- MODULE Spec2Model ----
(***************************************************************************)
(* Model of the patch scripts of a-one-bakeries-app.  Every script reads   *)
(* one or more Dart source files, applies literal or line-based edits, and *)
(* overwrites the file in place.                                           *)
(*                                                                         *)
(* A file is modelled as the sequence of its lines.  A line is the pair    *)
(* <<indent, text>>: the number of leading spaces and the stripped text,   *)
(* so that `line.strip() == x` is `line[2] = x` and equality of lines is   *)
(* equality of text.  Literals of the scripts are the sequences of their   *)
(* lines; str.replace and `in` work on whole lines.  Lines of a literal    *)
(* that no script searches for are written Code (one line each) in the     *)
(* dashboard file, whose scripts count lines, and are folded into one      *)
(* Chunk line in the other files.  The final newline of a file is not      *)
(* modelled.                                                               *)
(***************************************************************************)
EXTENDS Integers, Sequences, FiniteSets, TLC

VARIABLES
    fs,       \* the file system: path |-> lines, defined on the files that exist
    pre,      \* the file system before the last script run
    orig,     \* the file system before the first script run
    log,      \* the names of the scripts run so far, in order
    out,      \* what the last script run printed
    exit,     \* the exit status of the last script run
    reads,    \* the files the last script run opened for reading
    writes,   \* the files the last script run opened for writing
    dashPad,  \* number of leading lines of dashboard_screen.dart that are not
              \* part of fs (they hold no text any script searches for)
    procs     \* step-level runs: process |-> [pc, script, buf, pos, start, opened]

vars == <<fs, pre, orig, log, out, exit, reads, writes, dashPad, procs>>

----------------------------------------------------------------------------
\* Bounds

MaxRuns == 2    \* script runs per behaviour
MaxCopies == 2  \* times a searched line occurs in an input file
BufferLines == 3  \* lines a file object buffers before it writes them out

----------------------------------------------------------------------------
\* Text

L(n, t) == <<n, t>>
Blank == L(0, "")
Code == L(0, "<code>")
Rep(n, x) == [i \in 1..n |-> x]

Min(S) == CHOOSE x \in S : \A y \in S : x <= y

\* str.strip() of a line
strip(line) == line[2]

\* positions at which pat occurs in s
Matches(s, pat) ==
    {i \in 1..(Len(s) - Len(pat) + 1) :
        \A k \in 1..Len(pat) : s[i + k - 1] = pat[k]}

\* `pat in s`
Occurs(pat, s) == Matches(s, pat) # {}

\* number of non-overlapping occurrences, s.count(pat)
RECURSIVE CountFrom(_, _, _)
CountFrom(s, pat, from) ==
    LET M == {i \in Matches(s, pat) : i >= from}
    IN  IF M = {} THEN 0 ELSE 1 + CountFrom(s, pat, Min(M) + Len(pat))

Count(s, pat) == CountFrom(s, pat, 1)

RECURSIVE ReplaceFrom(_, _, _, _, _)
ReplaceFrom(s, old, new, count, from) ==
    LET M == {i \in Matches(s, old) : i >= from}
    IN  IF count = 0 \/ M = {}
        THEN SubSeq(s, from, Len(s))
        ELSE LET i == Min(M)
             IN  SubSeq(s, from, i - 1) \o new
                   \o ReplaceFrom(s, old, new, count - 1, i + Len(old))

\* s.replace(old, new, count): left to right, non-overlapping; count < 0
\* replaces every occurrence
Replace(s, old, new, count) == ReplaceFrom(s, old, new, count, 1)

\* `marker in line` for a substring marker: the lines that contain it
Substrings ==
    { <<"km_record_model.dart",
        "import 'package:a_one_bakeries_app/models/km_record_model.dart';">>,
      <<"cash_breakdown_screen",
        "import 'package:a_one_bakeries_app/screens/cash_breakdown_screen.dart';">>,
      <<"supplier_report_screen.dart",
        "import 'package:a_one_bakeries_app/screens/supplier_report_screen.dart';">>,
      <<"driver_vehicle_orders_report_screen.dart",
        "import 'package:a_one_bakeries_app/screens/driver_vehicle_orders_report_screen.dart';">>,
      <<"stock_movement_report_screen.dart",
        "import 'package:a_one_bakeries_app/screens/stock_movement_report_screen.dart';">>,
      <<"employee_credits_report_screen.dart",
        "import 'package:a_one_bakeries_app/screens/employee_credits_report_screen.dart';">>,
      <<"KM TRACKING OPERATIONS", "// KM TRACKING OPERATIONS">>,
      <<"Future<int> addKmRecord", "Future<int> addKmRecord(KmRecord record) async {">>,
      <<"enum ServiceStatus", "enum ServiceStatus {">>,
      <<"''')", "''');">> }

Has(marker, line) == line[2] = marker \/ <<marker, line[2]>> \in Substrings

\* `marker in content` for a marker that lies within one line
HasLine(marker, s) == \E i \in 1..Len(s) : Has(marker, s[i])

\* content.rstrip(): trailing whitespace-only lines are dropped
RECURSIVE rstrip(_)
rstrip(s) ==
    IF s = <<>> THEN s
    ELSE IF strip(s[Len(s)]) = "" THEN rstrip(SubSeq(s, 1, Len(s) - 1))
    ELSE s

\* lines.insert(index, x) for a 0-based index; a multi-line x is spliced in
insert(s, index, x) ==
    LET i == IF index > Len(s) THEN Len(s) ELSE index
    IN  SubSeq(s, 1, i) \o x \o SubSeq(s, i + 1, Len(s))

\* A line that ends with a carriage return before its line feed is the line
\* with a third component CR.
CR == "<CR>"
WithCR(line) == <<line[1], line[2], CR>>
HasCR(line) == Len(line) = 3 /\ line[3] = CR

\* open(path, 'r') without a newline argument: reading translates every
\* carriage return + line feed to a line feed
read_text(content) ==
    [i \in 1..Len(content) |->
        IF HasCR(content[i]) THEN L(content[i][1], content[i][2]) ELSE content[i]]

\* positions at which a text occurs whose last line has no line end: the
\* lines before the last match with their line ends, the last one without
MatchesOpen(s, pat) ==
    {i \in 1..(Len(s) - Len(pat) + 1) :
        /\ \A k \in 1..(Len(pat) - 1) : s[i + k - 1] = pat[k]
        /\ SubSeq(s[i + Len(pat) - 1], 1, 2) = pat[Len(pat)]}

\* s.replace(old, new) for texts whose last line has no line end: the line
\* end of the last matched line stays
RECURSIVE ReplaceOpenFrom(_, _, _, _)
ReplaceOpenFrom(s, old, new, from) ==
    LET M == {i \in MatchesOpen(s, old) : i >= from}
    IN  IF M = {}
        THEN SubSeq(s, from, Len(s))
        ELSE LET i == Min(M)
                 last == s[i + Len(old) - 1]
             IN  SubSeq(s, from, i - 1) \o SubSeq(new, 1, Len(new) - 1)
                   \o <<new[Len(new)] \o SubSeq(last, 3, Len(last))>>
                   \o ReplaceOpenFrom(s, old, new, i + Len(old))

ReplaceOpen(s, old, new) == ReplaceOpenFrom(s, old, new, 1)

----------------------------------------------------------------------------
\* Printed messages and exit statuses

Success == "success"        \* the script's final success line
Failure == "could not find" \* the script's failure line
Progress == "updated"       \* a per-file progress line of a two-file script
Traceback == "traceback"    \* uncaught exception report of the interpreter
CompileError == "compile error" \* the interpreter rejects the script file
NoDuplicates == "no duplicates found" \* remove_duplicates.py:27
Updating == "updating"      \* add_km_to_vehicle.py:6

ExitOk == 0
ExitError == 1

----------------------------------------------------------------------------
\* Files

DatabaseHelper == "lib/database/database_helper.dart"
DashboardScreen == "lib/screens/dashboard_screen.dart"
VehicleModel == "lib/models/vehicle_model.dart"
SupplierScreen == "lib/screens/supplier_screen.dart"
OrdersScreen == "lib/screens/orders_screen.dart"
StockScreen == "lib/screens/stock_screen.dart"
EmployeeScreen == "lib/screens/employee_screen.dart"
SupplierReportScreen == "lib/screens/supplier_report_screen.dart"
DriverReportScreen == "lib/screens/driver_vehicle_orders_report_screen.dart"

----------------------------------------------------------------------------
\* add_expense_notes_coins.py

add_expense_notes_coins_old_line == <<L(8, "amount REAL NOT NULL,")>>

add_expense_notes_coins_new_lines ==
    <<L(8, "notes REAL NOT NULL,"), L(8, "coins REAL NOT NULL,"),
      L(8, "amount REAL NOT NULL,")>>

\* the result of a script on the content it read:
\*   content: the content it holds at the end, write: whether it writes it back
add_expense_notes_coins(content) ==
    [content |-> Replace(content, add_expense_notes_coins_old_line,
                         add_expense_notes_coins_new_lines, 1),
     write |-> TRUE,
     out |-> <<Success>>]

----------------------------------------------------------------------------
\* fix_db_path_production.py

fix_db_path_production_old_text ==
    <<L(4, "// Get the database file path"),
      L(4, "String path = join(await getDatabasesPath(), 'a_one_bakeries.db');")>>

fix_db_path_production_new_text ==
    <<L(4, "// CRITICAL FIX: Use getApplicationDocumentsDirectory() for writable location"),
      L(4, "// This ensures database is writable in both debug and release builds"),
      L(4, "final directory = await getApplicationDocumentsDirectory();"),
      L(4, "String path = join(directory.path, 'a_one_bakeries.db');")>>

\* a faulty variant: the result of replace() is dropped (content.replace(...) without
\* the assignment)
fix_db_path_production_unassigned(content) ==
    IF Occurs(fix_db_path_production_old_text, content)
    THEN [content |-> content, write |-> TRUE, out |-> <<Success>>]
    ELSE [content |-> content, write |-> FALSE, out |-> <<Failure>>]

fix_db_path_production(content) ==
    IF Occurs(fix_db_path_production_old_text, content)
    THEN [content |-> Replace(content, fix_db_path_production_old_text,
                              fix_db_path_production_new_text, -1),
          write |-> TRUE,
          out |-> <<Success>>]
    ELSE [content |-> content, write |-> FALSE, out |-> <<Failure>>]

----------------------------------------------------------------------------
\* add_cash_breakdown_method.py and update_cash_breakdown.py

\* update_cash_breakdown.py:10-44; the lines from `// Query all income
\* records` to the `};` of the returned map are one Chunk line
update_cash_breakdown_old_method ==
    <<L(2, "/// Get cash breakdown from all income records"),
      L(2, "/// Returns total notes and coin denominations"),
      L(2, "Future<Map<String, double>> getCashBreakdown() async {"),
      L(4, "final db = await database;"),
      L(4, ""),
      L(4, "// Query all income records ... 'notes': (data['totalNotes'] ...) ... };"),
      L(2, "}")>>

\* update_cash_breakdown.py:46-89
update_cash_breakdown_new_method ==
    <<L(2, "/// Get cash breakdown (income - expenses)"),
      L(2, "/// Returns actual cash on hand by denomination"),
      L(2, "Future<Map<String, double>> getCashBreakdown() async {"),
      L(4, "final db = await database;"),
      L(4, ""),
      L(4, "// Get total income by denomination ... 'notes': (incomeData ...) - (expenseData ...) ... };"),
      L(2, "}")>>

\* add_cash_breakdown_method.py:10-46: an empty line, the income-only
\* method (the same text as old_method above) and a line end
cash_breakdown_method == <<Blank>> \o update_cash_breakdown_old_method

insertion_marker == <<L(2, "/// Get today's income")>>

\* cash_breakdown_method + '\n' + insertion_marker
add_cash_breakdown_method(content) ==
    IF Occurs(insertion_marker, content)
    THEN [content |-> Replace(content, insertion_marker,
                              cash_breakdown_method \o <<Blank>> \o insertion_marker,
                              -1),
          write |-> TRUE,
          out |-> <<Success>>]
    ELSE [content |-> content, write |-> FALSE, out |-> <<Failure>>]

\* a faulty variant: replace(old_method, new_method, 1)
update_cash_breakdown_first_only(content) ==
    [content |-> Replace(content, update_cash_breakdown_old_method,
                         update_cash_breakdown_new_method, 1),
     write |-> TRUE,
     out |-> <<Success>>]

update_cash_breakdown(content) ==
    [content |-> Replace(content, update_cash_breakdown_old_method,
                         update_cash_breakdown_new_method, -1),
     write |-> TRUE,
     out |-> <<Success>>]

----------------------------------------------------------------------------
\* add_km_db_methods.py

supplier_model_import ==
    <<L(0, "import 'package:a_one_bakeries_app/models/supplier_model.dart';")>>

km_imports ==
    <<L(0, "import 'package:a_one_bakeries_app/models/supplier_model.dart';"),
      L(0, "import 'package:a_one_bakeries_app/models/km_record_model.dart';"),
      L(0, "import 'package:a_one_bakeries_app/models/service_record_model.dart';")>>

\* add_km_db_methods.py:14-206 without its leading line end; the lines from
\* the body of addKmRecord to the body of getServiceRecordsByDateRange are
\* one Chunk line
km_methods ==
    <<L(2, "// ============================================================================"),
      L(2, "// KM TRACKING OPERATIONS"),
      L(2, "// ============================================================================"),
      Blank,
      L(2, "/// Add a new KM record and update vehicle's current KM"),
      L(2, "Future<int> addKmRecord(KmRecord record) async {"),
      L(4, "final db = await database; ... return List.generate(maps.length, (i) => ServiceRecord.fromMap(maps[i]));"),
      L(2, "}")>>

\* content.endswith('}')
endswith_brace(content) ==
    content # <<>> /\ strip(content[Len(content)]) = "}"

add_km_db_methods(content) ==
    LET c1 == IF ~HasLine("km_record_model.dart", content)
              THEN Replace(content, supplier_model_import, km_imports, -1)
              ELSE content
        c2 == rstrip(c1)
        c3 == IF endswith_brace(c2)
              THEN \* content[:-1] + km_methods + '\n}'
                   SubSeq(c2, 1, Len(c2) - 1)
                     \o <<L(c2[Len(c2)][1], "")>> \o km_methods
                     \o <<Blank, L(0, "}")>>
              ELSE \* content + km_methods
                   (IF c2 = <<>> THEN <<Blank>> ELSE c2) \o km_methods
    IN  [content |-> c3, write |-> TRUE, out |-> <<Success>>]

----------------------------------------------------------------------------
\* remove_duplicates.py

\* a faulty variant: the run ends with status 0 when the KM section is missing
remove_duplicates_exit_zero(lines) ==
    LET First == {i \in 1..Len(lines) : Has("KM TRACKING OPERATIONS", lines[i])}
    IN  IF First = {}
        THEN [content |-> lines, write |-> FALSE, out |-> <<Failure>>, exit |-> ExitOk]
        ELSE [content |-> lines, write |-> FALSE, out |-> <<NoDuplicates>>, exit |-> ExitOk]

\* remove_duplicates.py:3-41. Indices are those of Python plus one. When the
\* second loop runs, `line` is still the line the first loop stopped at
\* (line 22 tests `line`, not `lines[i]`, for the section header).
remove_duplicates(lines) ==
    LET First == {i \in 1..Len(lines) : Has("KM TRACKING OPERATIONS", lines[i])}
    IN  IF First = {}
        THEN [content |-> lines, write |-> FALSE, out |-> <<Failure>>, exit |-> ExitError]
        ELSE LET first_km_section == Min(First)
                 line == lines[first_km_section]
                 Second == {i \in (first_km_section + 1)..Len(lines) :
                              \/ Has("KM TRACKING OPERATIONS", line)
                              \/ Has("Future<int> addKmRecord", lines[i])}
             IN  IF Second = {}
                 THEN [content |-> lines, write |-> FALSE, out |-> <<NoDuplicates>>,
                       exit |-> ExitOk]
                 ELSE LET second_km_section == Min(Second)
                          output_lines == SubSeq(lines, 1, second_km_section - 1)
                      IN  [content |-> IF strip(output_lines[Len(output_lines)]) # "}"
                                       THEN Append(output_lines, L(0, "}"))
                                       ELSE output_lines,
                           write |-> TRUE, out |-> <<Success>>, exit |-> ExitOk]

----------------------------------------------------------------------------
\* add_settings_icon.py

\* add_settings_icon.py:10-14
add_settings_icon_old_text ==
    <<L(16, "),"), L(12, "],"), L(10, "),"), L(8, "],"), L(6, "),")>>

\* add_settings_icon.py:16-26
add_settings_icon_new_text ==
    <<L(16, "),"), L(12, "],"), L(10, "),"), L(10, "// Settings Icon"), L(10, "IconButton("),
      L(12, "icon: const Icon(Icons.settings_outlined),"),
      L(12, "onPressed: _navigateToSettings,"), L(12, "tooltip: 'Settings',"), L(10, "),"),
      L(8, "],"), L(6, "),")>>

\* a faulty variant: no `in content` check, the file is always written and success
\* reported
add_settings_icon_unguarded(content) ==
    [content |-> Replace(content, add_settings_icon_old_text,
                         add_settings_icon_new_text, -1),
     write |-> TRUE,
     out |-> <<Success>>]

add_settings_icon(content) ==
    IF Occurs(add_settings_icon_old_text, content)
    THEN [content |-> Replace(content, add_settings_icon_old_text,
                              add_settings_icon_new_text, -1),
          write |-> TRUE,
          out |-> <<Success>>]
    ELSE [content |-> content, write |-> FALSE, out |-> <<Failure>>]

----------------------------------------------------------------------------
\* final_dashboard_fix.py

\* final_dashboard_fix.py:10-20
final_dashboard_fix_search_text ==
    <<L(8, "SummaryCard("), L(10, "title: 'Today\\'s Expenses',"),
      L(10, "value: _isLoading ? '...' : _currencyFormat.format(_todayExpenses),"),
      L(10, "subtitle: 'Total expenses today',"), L(10, "icon: Icons.trending_down,"),
      L(10, "color: AppTheme.errorRed,"), L(10, "onTap: _navigateToFinance,"), L(8, "),"),
      L(6, "],"), L(4, ");"), L(2, "}")>>

\* final_dashboard_fix.py:22-84
final_dashboard_fix_replace_text ==
    <<L(8, "SummaryCard("), L(10, "title: 'Today\\'s Expenses',"),
      L(10, "value: _isLoading ? '...' : _currencyFormat.format(_todayExpenses),"),
      L(10, "subtitle: 'Total expenses today',"), L(10, "icon: Icons.trending_down,"),
      L(10, "color: AppTheme.errorRed,"), L(10, "onTap: _navigateToFinance,"), L(8, "),"),
      L(8, ""), L(8, "// Cash Breakdown"), L(8, "_buildCashBreakdownCard(),"), L(6, "],"),
      L(4, ");"), L(2, "}"), L(0, ""), L(2, "Widget _buildCashBreakdownCard() {")>>
    \o Rep(20, Code)
    \o <<L(12, "),")>>
    \o Rep(9, Code)
    \o <<L(18, "],"), L(16, "),")>>
    \o Rep(4, Code)
    \o <<L(14, "],"), L(12, "),"), L(10, "),"), L(8, ");")>>
    \o Rep(1, Code)
    \o <<L(4, ");"), L(2, "}"), L(0, ""), L(2, "Widget _buildBreakdownItem({...}) {")>>
    \o Rep(1, Code)
    \o <<L(2, "}")>>

final_dashboard_fix(content) ==
    IF Occurs(final_dashboard_fix_search_text, content)
    THEN [content |-> Replace(content, final_dashboard_fix_search_text,
                              final_dashboard_fix_replace_text, -1),
          write |-> TRUE,
          out |-> <<Success>>]
    ELSE [content |-> content, write |-> FALSE, out |-> <<Failure>>]

----------------------------------------------------------------------------
\* add_dashboard_breakdown.py

stock_screen_import ==
    <<L(0, "import 'package:a_one_bakeries_app/screens/stock_screen.dart';")>>

import_line ==
    <<L(0, "import 'package:a_one_bakeries_app/screens/cash_breakdown_screen.dart';")>>

\* add_dashboard_breakdown.py:23-28
add_dashboard_breakdown_old_closing ==
    <<L(8, "),"), L(6, "],"), L(4, ");"), L(2, "}"), L(0, ""),
      L(2, "// ===================== WELCOME & DATE =====================")>>

\* add_dashboard_breakdown.py:30-132
add_dashboard_breakdown_new_closing ==
    <<L(8, "),"), L(8, "// Cash Breakdown Card"), L(8, "_buildCashBreakdownCard(),"),
      L(6, "],"), L(4, ");"), L(2, "}"), L(0, "")>>
    \o Rep(1, Code)
    \o <<L(2, "Widget _buildCashBreakdownCard() {")>>
    \o Rep(4, Code)
    \o <<L(0, "")>>
    \o Rep(8, Code)
    \o <<L(0, "")>>
    \o Rep(13, Code)
    \o <<L(14, "),")>>
    \o Rep(2, Code)
    \o <<L(12, "),")>>
    \o Rep(10, Code)
    \o <<L(22, "),")>>
    \o Rep(1, Code)
    \o <<L(20, "),")>>
    \o Rep(7, Code)
    \o <<L(24, "],"), L(22, "),"), L(20, "),")>>
    \o Rep(1, Code)
    \o <<L(18, "],"), L(16, "),")>>
    \o Rep(8, Code)
    \o <<L(18, "],"), L(16, "),"), L(14, "],"), L(12, "),"), L(10, "),"), L(8, ");")>>
    \o Rep(1, Code)
    \o <<L(4, ");"), L(2, "}"), L(0, ""), L(2, "Widget _buildBreakdownItem({...}) {")>>
    \o Rep(8, Code)
    \o <<L(10, "],"), L(8, "),")>>
    \o Rep(3, Code)
    \o <<L(6, "],"), L(4, ");"), L(2, "}"), L(0, ""),
         L(2, "// ===================== WELCOME & DATE =====================")>>

\* re.sub of the stock_screen import line by itself followed by import_line,
\* then the replacement of old_closing, which no guard protects
add_dashboard_breakdown(content) ==
    LET c1 == IF ~HasLine("cash_breakdown_screen", content)
              THEN Replace(content, stock_screen_import,
                           stock_screen_import \o import_line, -1)
              ELSE content
    IN  [content |-> Replace(c1, add_dashboard_breakdown_old_closing,
                             add_dashboard_breakdown_new_closing, -1),
         write |-> TRUE,
         out |-> <<Success>>]

----------------------------------------------------------------------------
\* add_settings_method.py

None == -1

NotificationsWindow == 15   \* range(i, min(i + 15, len(lines)))
NotificationsMinOffset == 5 \* j > i + 5

\* add_settings_method.py:21-29
add_settings_method_new_method ==
    <<L(0, ""), L(2, "/// Navigate to Settings Screen"), L(2, "void _navigateToSettings() {")>>
    \o Rep(3, Code)
    \o <<L(4, ");"), L(2, "}")>>

\* indices are 0-based, as in the script: lines[r] is content[r + 1]
add_settings_method_insert_index(content) ==
    LET I == {r \in 0..(Len(content) - 1) :
                Has("/// Navigate to Notifications Screen", content[r + 1])}
    IN  IF I = {} THEN None
        ELSE LET i == Min(I)
                 hi == IF i + NotificationsWindow < Len(content)
                       THEN i + NotificationsWindow ELSE Len(content)
                 J == {r \in i..(hi - 1) :
                         strip(content[r + 1]) = "}" /\ r > i + NotificationsMinOffset}
             IN  IF J = {} THEN None ELSE Min(J) + 1

add_settings_method(content) ==
    LET insert_index == add_settings_method_insert_index(content)
    IN  IF insert_index # None /\ insert_index # 0
        THEN [content |-> insert(content, insert_index, add_settings_method_new_method),
              write |-> TRUE,
              out |-> <<Success>>]
        ELSE [content |-> content, write |-> FALSE, out |-> <<Failure>>]

----------------------------------------------------------------------------
\* add_dashboard_card.py

FinanceCardMinIndex == 430 \* i > 430
CardCloseWindow == 10      \* range(i, min(i + 10, len(lines)))
ChildrenCloseWindow == 5   \* range(j, min(j + 5, len(lines)))
MethodScanFrom == 10       \* range(insert_index + 10, ...)
MethodScanTo == 20         \* min(insert_index + 20, len(lines))
MethodMinOffset == 5       \* i > insert_index + 5

\* add_dashboard_card.py:29-34
add_dashboard_card_new_lines ==
    <<Blank, L(8, "// Cash Breakdown Card"), L(8, "_buildCashBreakdownCard(),")>>

\* add_dashboard_card.py:49-145
add_dashboard_card_method_code ==
    <<L(0, "")>>
    \o Rep(1, Code)
    \o <<L(2, "Widget _buildCashBreakdownCard() {")>>
    \o Rep(4, Code)
    \o <<L(0, "")>>
    \o Rep(8, Code)
    \o <<L(0, "")>>
    \o Rep(13, Code)
    \o <<L(14, "),")>>
    \o Rep(2, Code)
    \o <<L(12, "),")>>
    \o Rep(10, Code)
    \o <<L(22, "),")>>
    \o Rep(1, Code)
    \o <<L(20, "),")>>
    \o Rep(7, Code)
    \o <<L(24, "],"), L(22, "),"), L(20, "),")>>
    \o Rep(1, Code)
    \o <<L(18, "],"), L(16, "),")>>
    \o Rep(8, Code)
    \o <<L(18, "],"), L(16, "),"), L(14, "],"), L(12, "),"), L(10, "),"), L(8, ");")>>
    \o Rep(1, Code)
    \o <<L(4, ");"), L(2, "}"), L(0, ""), L(2, "Widget _buildBreakdownItem({...}) {")>>
    \o Rep(8, Code)
    \o <<L(10, "],"), L(8, "),")>>
    \o Rep(3, Code)
    \o <<L(6, "],"), L(4, ");"), L(2, "}"), L(0, "")>>

\* the smaller of a + w and the number of lines of the file
WindowEnd(a, w, content) ==
    IF a + w < dashPad + Len(content) THEN a + w ELSE dashPad + Len(content)

\* lines[i] for an index i of the file: the dashPad leading lines are Code
LineAt(content, i) == IF i < dashPad THEN Code ELSE content[i - dashPad + 1]

\* add_dashboard_card.py:12-25, indices are those of the whole file
add_dashboard_card_insert_index(content) ==
    LET I == {i \in dashPad..(dashPad + Len(content) - 1) :
                /\ Has("onTap: _navigateToFinance,", LineAt(content, i))
                /\ i > FinanceCardMinIndex}
    IN  IF I = {} THEN None
        ELSE LET i == Min(I)
                 J == {j \in i..(WindowEnd(i, CardCloseWindow, content) - 1) :
                         strip(LineAt(content, j)) = "),"}
             IN  IF J = {} THEN None
                 ELSE LET j == Min(J)
                          K == {k \in j..(WindowEnd(j, ChildrenCloseWindow, content) - 1) :
                                  strip(LineAt(content, k)) = "],"}
                      IN  IF K = {} THEN None ELSE Min(K)

\* add_dashboard_card.py:42-46, on the lines after the call was inserted
add_dashboard_card_method_insert_index(lines, insert_index) ==
    LET I == {i \in (insert_index + MethodScanFrom)
                      ..(WindowEnd(insert_index, MethodScanTo, lines) - 1) :
                /\ strip(LineAt(lines, i)) = "}"
                /\ i > insert_index + MethodMinOffset}
    IN  IF I = {} THEN None ELSE Min(I) + 1

add_dashboard_card(content) ==
    LET insert_index == add_dashboard_card_insert_index(content)
    IN  IF insert_index # None /\ insert_index # 0
        THEN LET lines1 == insert(content, insert_index - dashPad,
                                  add_dashboard_card_new_lines)
                 method_insert_index ==
                     add_dashboard_card_method_insert_index(lines1, insert_index)
                 lines2 == IF method_insert_index # None /\ method_insert_index # 0
                           THEN insert(lines1, method_insert_index - dashPad,
                                       add_dashboard_card_method_code)
                           ELSE lines1
             IN  [content |-> lines2, write |-> TRUE, out |-> <<Success>>]
        ELSE [content |-> content, write |-> FALSE, out |-> <<Failure>>]

----------------------------------------------------------------------------
\* add_final_reports.py

supplier_details_import ==
    <<L(0, "import 'package:a_one_bakeries_app/screens/supplier_details_screen.dart';")>>

supplier_report_import ==
    <<L(0, "import 'package:a_one_bakeries_app/screens/supplier_report_screen.dart';")>>

create_order_import ==
    <<L(0, "import 'package:a_one_bakeries_app/screens/create_order_screen.dart';")>>

driver_report_import ==
    <<L(0, "import 'package:a_one_bakeries_app/screens/driver_vehicle_orders_report_screen.dart';")>>

\* add_final_reports.py:15-17
suppliers_old_appbar ==
    <<L(6, "appBar: AppBar("), L(8, "title: const Text('Suppliers'),"), L(6, "),")>>

\* add_final_reports.py:19-33; the actions list is one Chunk line
suppliers_new_appbar ==
    <<L(6, "appBar: AppBar("), L(8, "title: const Text('Suppliers'),"),
      L(8, "actions: [ IconButton( ... const SupplierReportScreen() ... ), ],"),
      L(6, "),")>>

\* add_final_reports.py:54-56
orders_old_appbar ==
    <<L(6, "appBar: AppBar("), L(8, "title: const Text('Orders'),"), L(6, "),")>>

\* add_final_reports.py:58-72
orders_new_appbar ==
    <<L(6, "appBar: AppBar("), L(8, "title: const Text('Orders'),"),
      L(8, "actions: [ IconButton( ... const DriverVehicleOrdersReportScreen() ... ), ],"),
      L(6, "),")>>

\* add_final_reports.py:7-35, the edit of supplier_screen.dart
add_final_reports_supplier(content) ==
    LET c1 == IF ~HasLine("supplier_report_screen.dart", content)
              THEN Replace(content, supplier_details_import,
                           supplier_details_import \o supplier_report_import, -1)
              ELSE content
    IN  Replace(c1, suppliers_old_appbar, suppliers_new_appbar, -1)

\* add_final_reports.py:46-74, the edit of orders_screen.dart
add_final_reports_orders(content) ==
    LET c1 == IF ~HasLine("driver_vehicle_orders_report_screen.dart", content)
              THEN Replace(content, create_order_import,
                           create_order_import \o driver_report_import, -1)
              ELSE content
    IN  Replace(c1, orders_old_appbar, orders_new_appbar, -1)

\* a faulty variant: both files are read and patched before either is written
add_final_reports_read_both_first(fsys) ==
    IF SupplierScreen \notin DOMAIN fsys \/ OrdersScreen \notin DOMAIN fsys
    THEN [fs |-> fsys, out |-> <<Traceback>>, exit |-> ExitError,
          reads |-> {SupplierScreen} \cap DOMAIN fsys, writes |-> {}]
    ELSE [fs |-> [fsys EXCEPT
                    ![SupplierScreen] = add_final_reports_supplier(fsys[SupplierScreen]),
                    ![OrdersScreen] = add_final_reports_orders(fsys[OrdersScreen])],
          out |-> <<Progress, Progress, Success>>,
          exit |-> ExitOk,
          reads |-> {SupplierScreen, OrdersScreen},
          writes |-> {SupplierScreen, OrdersScreen}]

\* the whole script on a file system: open() of a file that does not exist
\* raises FileNotFoundError, which nothing catches
add_final_reports(fsys) ==
    IF SupplierScreen \notin DOMAIN fsys
    THEN [fs |-> fsys, out |-> <<Traceback>>, exit |-> ExitError,
          reads |-> {}, writes |-> {}]
    ELSE LET fs1 == [fsys EXCEPT ![SupplierScreen] = add_final_reports_supplier(fsys[SupplierScreen])]
         IN  IF OrdersScreen \notin DOMAIN fs1
             THEN [fs |-> fs1, out |-> <<Progress, Traceback>>, exit |-> ExitError,
                   reads |-> {SupplierScreen}, writes |-> {SupplierScreen}]
             ELSE [fs |-> [fs1 EXCEPT ![OrdersScreen] = add_final_reports_orders(fs1[OrdersScreen])],
                   out |-> <<Progress, Progress, Success>>,
                   exit |-> ExitOk,
                   reads |-> {SupplierScreen, OrdersScreen}, writes |-> {SupplierScreen, OrdersScreen}]

----------------------------------------------------------------------------
\* fix_reports.py

supplier_screen_import ==
    <<L(0, "import 'package:a_one_bakeries_app/screens/supplier_screen.dart';")>>

stock_movement_report_import ==
    <<L(0, "import 'package:a_one_bakeries_app/screens/stock_movement_report_screen.dart';")>>

employee_photo_import ==
    <<L(0, "import 'package:a_one_bakeries_app/widgets/employee_photo_widget.dart';")>>

employee_credits_report_import ==
    <<L(0, "import 'package:a_one_bakeries_app/screens/employee_credits_report_screen.dart';")>>

\* fix_reports.py:15-26; each IconButton is one Chunk line
old_actions ==
    <<L(8, "actions: ["),
      L(10, "IconButton( icon: const Icon(Icons.business), ... tooltip: 'Suppliers', ),"),
      L(10, "IconButton( icon: const Icon(Icons.history), ... tooltip: 'Stock Movements', ),"),
      L(8, "],")>>

\* fix_reports.py:28-49
new_actions ==
    <<L(8, "actions: ["),
      L(10, "IconButton( icon: const Icon(Icons.assessment), ... tooltip: 'Stock Movement Report', ),"),
      L(10, "IconButton( icon: const Icon(Icons.business), ... tooltip: 'Suppliers', ),"),
      L(10, "IconButton( icon: const Icon(Icons.history), ... tooltip: 'Stock Movements', ),"),
      L(8, "],")>>

\* fix_reports.py:70-72
employees_old_appbar ==
    <<L(6, "appBar: AppBar("), L(8, "title: const Text('Employees'),"), L(6, "),")>>

\* fix_reports.py:74-88
employees_new_appbar ==
    <<L(6, "appBar: AppBar("), L(8, "title: const Text('Employees'),"),
      L(8, "actions: [ IconButton( ... const EmployeeCreditsReportScreen() ... ), ],"),
      L(6, "),")>>

fix_reports_stock(content) ==
    LET c1 == IF ~HasLine("stock_movement_report_screen.dart", content)
              THEN Replace(content, supplier_screen_import,
                           supplier_screen_import \o stock_movement_report_import, -1)
              ELSE content
    IN  Replace(c1, old_actions, new_actions, -1)

fix_reports_employee(content) ==
    LET c1 == IF ~HasLine("employee_credits_report_screen.dart", content)
              THEN Replace(content, employee_photo_import,
                           employee_photo_import \o employee_credits_report_import, -1)
              ELSE content
    IN  Replace(c1, employees_old_appbar, employees_new_appbar, -1)

fix_reports(fsys) ==
    IF StockScreen \notin DOMAIN fsys
    THEN [fs |-> fsys, out |-> <<Traceback>>, exit |-> ExitError,
          reads |-> {}, writes |-> {}]
    ELSE LET fs1 == [fsys EXCEPT ![StockScreen] = fix_reports_stock(fsys[StockScreen])]
         IN  IF EmployeeScreen \notin DOMAIN fs1
             THEN [fs |-> fs1, out |-> <<Progress, Traceback>>, exit |-> ExitError,
                   reads |-> {StockScreen}, writes |-> {StockScreen}]
             ELSE [fs |-> [fs1 EXCEPT ![EmployeeScreen] = fix_reports_employee(fs1[EmployeeScreen])],
                   out |-> <<Progress, Progress, Success>>,
                   exit |-> ExitOk,
                   reads |-> {StockScreen, EmployeeScreen}, writes |-> {StockScreen, EmployeeScreen}]

----------------------------------------------------------------------------
\* fix_new_reports.py

\* content.replace(old, new) for texts that lie within one line: the text of
\* every line that is `old` becomes `new`, the indentation stays
replace_in_lines(content, old, new) ==
    [i \in 1..Len(content) |->
        IF content[i][2] = old THEN <<content[i][1], new>> \o SubSeq(content[i], 3, Len(content[i]))
        ELSE content[i]]

\* An entry line `'key': value,` of a summaryData map is the line
\* <<indent, "entry", <<key, value>>>>; keys hold no quote and values no
\* comma, colon or brace.
Entry(n, key, value) == <<n, "entry", <<key, value>>>>

\* re.sub(r'summaryData: \{([^}]+)\}', lambda m: ..., content) on a map written
\* as a `summaryData: {` line, entry lines and a `},` line: the match becomes
\* summaryTitle, summaryLabels (the keys) and summaryValues (the values)
RECURSIVE summary_sub(_)
summary_sub(content) ==
    LET Closes(i) == {j \in (i + 1)..Len(content) : content[j][2] = "},"}
        Opens == {i \in 1..Len(content) :
                    /\ content[i][2] = "summaryData: {"
                    /\ Closes(i) # {}
                    /\ \A k \in (i + 1)..(Min(Closes(i)) - 1) : content[k][2] = "entry"}
    IN  IF Opens = {} THEN content
        ELSE LET i == Min(Opens)
                 j == Min(Closes(i))
                 keys == [k \in 1..(j - i - 1) |-> content[i + k][3][1]]
                 values == [k \in 1..(j - i - 1) |-> content[i + k][3][2]]
             IN  SubSeq(content, 1, i - 1)
                   \o << <<content[i][1], "summaryTitle: 'Summary',">>,
                         <<8, "summaryLabels: [...],", keys>>,
                         <<8, "summaryValues: [...],", values>> >>
                   \o summary_sub(SubSeq(content, j + 1, Len(content)))

fix_new_reports_supplier(content) ==
    summary_sub(replace_in_lines(content, "title: 'Supplier Report',",
                                 "reportTitle: 'Supplier Report',"))

\* a faulty variant: getVehicleById is not renamed
fix_new_reports_driver_no_rename(content) ==
    summary_sub(replace_in_lines(content, "title: 'Driver/Vehicle Orders Report',",
                                 "reportTitle: 'Driver/Vehicle Orders Report',"))

fix_new_reports_driver(content) ==
    LET c1 == replace_in_lines(content, "title: 'Driver/Vehicle Orders Report',",
                               "reportTitle: 'Driver/Vehicle Orders Report',")
        c2 == replace_in_lines(c1,
                  "vehicle = await _dbHelper.getVehicleById(orders.first.vehicleId!);",
                  "vehicle = await _dbHelper.getVehicle(orders.first.vehicleId!);")
    IN  summary_sub(c2)

fix_new_reports(fsys) ==
    IF SupplierReportScreen \notin DOMAIN fsys
    THEN [fs |-> fsys, out |-> <<Traceback>>, exit |-> ExitError,
          reads |-> {}, writes |-> {}]
    ELSE LET fs1 == [fsys EXCEPT ![SupplierReportScreen] = fix_new_reports_supplier(fsys[SupplierReportScreen])]
         IN  IF DriverReportScreen \notin DOMAIN fs1
             THEN [fs |-> fs1, out |-> <<Progress, Traceback>>, exit |-> ExitError,
                   reads |-> {SupplierReportScreen}, writes |-> {SupplierReportScreen}]
             ELSE [fs |-> [fs1 EXCEPT ![DriverReportScreen] = fix_new_reports_driver(fs1[DriverReportScreen])],
                   out |-> <<Progress, Progress, Success>>,
                   exit |-> ExitOk,
                   reads |-> {SupplierReportScreen, DriverReportScreen}, writes |-> {SupplierReportScreen, DriverReportScreen}]

----------------------------------------------------------------------------
\* fix_vehicle_lookup.py

\* fix_vehicle_lookup.py:7-10
fix_vehicle_lookup_old_code ==
    <<L(12, "// Get linked vehicle"),
      L(12, "if (orders.first.vehicleId != null) {"),
      L(14, "vehicle = await _dbHelper.getVehicle(orders.first.vehicleId!);"),
      L(12, "}")>>

\* fix_vehicle_lookup.py:12-13
fix_vehicle_lookup_new_code ==
    <<L(12, "// Vehicle info would be loaded here if needed"),
      L(12, "// For now, just using driver name")>>

\* content.replace(old_code, new_code)
fix_vehicle_lookup_edit(content) ==
    Replace(content, fix_vehicle_lookup_old_code, fix_vehicle_lookup_new_code, -1)

\* the whole script on a file system
fix_vehicle_lookup(fsys) ==
    IF DriverReportScreen \notin DOMAIN fsys
    THEN [fs |-> fsys, out |-> <<Traceback>>, exit |-> ExitError,
          reads |-> {}, writes |-> {}]
    ELSE [fs |-> [fsys EXCEPT ![DriverReportScreen] =
                    fix_vehicle_lookup_edit(fsys[DriverReportScreen])],
          out |-> <<Progress>>, exit |-> ExitOk,
          reads |-> {DriverReportScreen}, writes |-> {DriverReportScreen}]

----------------------------------------------------------------------------
\* add_km_to_vehicle.py

\* add_km_to_vehicle.py:20-116, the old and new texts of the seven
\* vehicle_content.replace(old, new) calls, in order; the last line of each
\* text has no line end
add_km_to_vehicle_replacements ==
    <<\* lines 20-23
      [old |->
         <<WithCR(L(2, "final String? diskNumber;           // Optional disk reference number")),
           WithCR(L(0, "")),
           L(2, "/// Timestamp when the vehicle record was created.")>>,
       new |->
         <<WithCR(L(2, "final String? diskNumber;           // Optional disk reference number")),
           WithCR(L(0, "")),
           L(2, "// NEW: KM Tracking Fields"),
           L(2, "final int currentKm;              // Current odometer reading"),
           L(2, "final int lastServiceKm;          // KM at last service"),
           L(2, "final int serviceIntervalKm;      // KM between services (default: 10000)"),
           L(2, "final int nextServiceKm;          // Calculated: lastServiceKm + serviceIntervalKm"),
           L(0, ""),
           L(4, "/// Timestamp when the vehicle record was created.")>>],
      \* lines 26-34
      [old |->
         <<WithCR(L(4, "this.diskNumber,")),
           L(4, "DateTime? createdAt,")>>,
       new |->
         <<L(4, "this.diskNumber,"),
           L(4, "this.currentKm = 0,"),
           L(4, "this.lastServiceKm = 0,"),
           L(4, "this.serviceIntervalKm = 10000,"),
           L(4, "int? nextServiceKm,"),
           L(4, "DateTime? createdAt,")>>],
      \* lines 37-42
      [old |->
         <<WithCR(L(2, "})  : createdAt = createdAt ?? DateTime.now(),")),
           L(8, "updatedAt = updatedAt ?? DateTime.now();")>>,
       new |->
         <<L(2, "})  : nextServiceKm = nextServiceKm ?? (lastServiceKm + serviceIntervalKm),"),
           L(8, "createdAt = createdAt ?? DateTime.now(),"),
           L(8, "updatedAt = updatedAt ?? DateTime.now();")>>],
      \* lines 72-80
      [old |->
         <<WithCR(L(6, "'diskNumber': diskNumber,")),
           L(6, "'createdAt': createdAt.toIso8601String(),")>>,
       new |->
         <<L(6, "'diskNumber': diskNumber,"),
           L(6, "'currentKm': currentKm,"),
           L(6, "'lastServiceKm': lastServiceKm,"),
           L(6, "'serviceIntervalKm': serviceIntervalKm,"),
           L(6, "'nextServiceKm': nextServiceKm,"),
           L(6, "'createdAt': createdAt.toIso8601String(),")>>],
      \* lines 83-91
      [old |->
         <<WithCR(L(6, "diskNumber: map['diskNumber'] as String?,")),
           L(6, "createdAt: DateTime.parse(map['createdAt'] as String),")>>,
       new |->
         <<L(6, "diskNumber: map['diskNumber'] as String?,"),
           L(6, "currentKm: (map['currentKm'] as int?) ?? 0,"),
           L(6, "lastServiceKm: (map['lastServiceKm'] as int?) ?? 0,"),
           L(6, "serviceIntervalKm: (map['serviceIntervalKm'] as int?) ?? 10000,"),
           L(6, "nextServiceKm: map['nextServiceKm'] as int?,"),
           L(6, "createdAt: DateTime.parse(map['createdAt'] as String),")>>],
      \* lines 94-104
      [old |->
         <<WithCR(L(4, "DateTime? licenseDiskExpiry,")),
           WithCR(L(4, "DateTime? lastRenewalDate,")),
           WithCR(L(4, "String? diskNumber,")),
           L(4, "DateTime? createdAt,")>>,
       new |->
         <<L(4, "DateTime? licenseDiskExpiry,"),
           L(4, "DateTime? lastRenewalDate,"),
           L(4, "String? diskNumber,"),
           L(4, "int? currentKm,"),
           L(4, "int? lastServiceKm,"),
           L(4, "int? serviceIntervalKm,"),
           L(4, "int? nextServiceKm,"),
           L(4, "DateTime? createdAt,")>>],
      \* lines 106-116
      [old |->
         <<WithCR(L(6, "licenseDiskExpiry: licenseDiskExpiry ?? this.licenseDiskExpiry,")),
           WithCR(L(6, "lastRenewalDate: lastRenewalDate ?? this.lastRenewalDate,")),
           WithCR(L(6, "diskNumber: diskNumber ?? this.diskNumber,")),
           L(6, "createdAt: createdAt ?? this.createdAt,")>>,
       new |->
         <<L(6, "licenseDiskExpiry: licenseDiskExpiry ?? this.licenseDiskExpiry,"),
           L(6, "lastRenewalDate: lastRenewalDate ?? this.lastRenewalDate,"),
           L(6, "diskNumber: diskNumber ?? this.diskNumber,"),
           L(6, "currentKm: currentKm ?? this.currentKm,"),
           L(6, "lastServiceKm: lastServiceKm ?? this.lastServiceKm,"),
           L(6, "serviceIntervalKm: serviceIntervalKm ?? this.serviceIntervalKm,"),
           L(6, "nextServiceKm: nextServiceKm ?? this.nextServiceKm,"),
           L(6, "createdAt: createdAt ?? this.createdAt,")>>]>>

\* add_km_to_vehicle.py:45-61
service_properties ==
    <<L(0, ""),
      L(2, "/// NEW: KM until next service"),
      L(2, "int get kmUntilService => nextServiceKm - currentKm;"),
      L(0, ""),
      L(2, "/// NEW: Check if service is due"),
      L(2, "bool get isServiceDue => currentKm >= nextServiceKm;"),
      L(0, ""),
      L(2, "/// NEW: Check if service is approaching (within 1000 KM)"),
      L(2, "bool get isServiceApproaching => kmUntilService <= 1000 && kmUntilService > 0;"),
      L(0, ""),
      L(2, "/// NEW: Get service status"),
      L(2, "ServiceStatus get serviceStatus {"),
      L(4, "if (isServiceDue) return ServiceStatus.overdue;"),
      L(4, "if (isServiceApproaching) return ServiceStatus.dueSoon;"),
      L(4, "return ServiceStatus.ok;"),
      L(2, "}"),
      L(0, "")>>

\* add_km_to_vehicle.py:119-163; the text begins with a line end
service_status_enum ==
    <<L(0, ""), L(0, ""), L(0, "/// Service Status Enum"), L(0, "enum ServiceStatus {")>>
    \o Rep(3, Code)
    \o <<L(0, "}"), L(0, "")>>
    \o Rep(10, Code)
    \o <<L(4, "}"), L(2, "}"), L(0, "")>>
    \o Rep(8, Code)
    \o <<L(4, "}"), L(2, "}"), L(0, "")>>
    \o Rep(8, Code)
    \o <<L(4, "}"), L(2, "}"), L(0, "}")>>

\* re.sub(r'(  DiskStatus get diskStatus \{[^}]+\})', r'\1' + service_properties,
\* ...): service_properties goes in after the first `}` that follows the
\* getter's opening line. Of the modelled lines only `}` lines hold a `}`.
RECURSIVE disk_status_sub(_)
disk_status_sub(content) ==
    LET Closes(i) == {j \in (i + 1)..Len(content) : strip(content[j]) = "}"}
        Opens == {i \in 1..Len(content) :
                    /\ content[i] = L(2, "DiskStatus get diskStatus {")
                    /\ Closes(i) # {}}
    IN  IF Opens = {} THEN content
        ELSE LET j == Min(Closes(Min(Opens)))
             IN  SubSeq(content, 1, j)
                   \o SubSeq(service_properties, 2, Len(service_properties))
                   \o disk_status_sub(SubSeq(content, j + 1, Len(content)))

\* the replace calls a..b, one after another
RECURSIVE add_km_to_vehicle_replace(_, _, _)
add_km_to_vehicle_replace(content, a, b) ==
    IF a > b THEN content
    ELSE add_km_to_vehicle_replace(
             ReplaceOpen(content, add_km_to_vehicle_replacements[a].old,
                         add_km_to_vehicle_replacements[a].new),
             a + 1, b)

\* add_km_to_vehicle.py:19-167 on the content read; re.sub (line 64) comes
\* after the third replace call
add_km_to_vehicle_edit(vehicle_content) ==
    LET c1 == disk_status_sub(add_km_to_vehicle_replace(vehicle_content, 1, 3))
        c2 == add_km_to_vehicle_replace(c1, 4, Len(add_km_to_vehicle_replacements))
    IN  IF ~HasLine("enum ServiceStatus", c2)
        THEN IF rstrip(c2) = <<>> THEN service_status_enum
             ELSE rstrip(c2) \o SubSeq(service_status_enum, 2, Len(service_status_enum))
        ELSE c2

\* the whole script on a file system; "Updating Vehicle model..." is printed
\* before the file is opened
\* a faulty variant: the file is opened for writing before it is read, so a
\* run without the file creates it
add_km_to_vehicle_write_first(fsys) ==
    IF VehicleModel \notin DOMAIN fsys
    THEN [fs |-> fsys @@ (VehicleModel :> <<>>), out |-> <<Updating, Traceback>>,
          exit |-> ExitError, reads |-> {}, writes |-> {VehicleModel}]
    ELSE [fs |-> [fsys EXCEPT ![VehicleModel] =
                    add_km_to_vehicle_edit(read_text(fsys[VehicleModel]))],
          out |-> <<Updating, Success>>, exit |-> ExitOk,
          reads |-> {VehicleModel}, writes |-> {VehicleModel}]

add_km_to_vehicle(fsys) ==
    IF VehicleModel \notin DOMAIN fsys
    THEN [fs |-> fsys, out |-> <<Updating, Traceback>>, exit |-> ExitError,
          reads |-> {}, writes |-> {}]
    ELSE [fs |-> [fsys EXCEPT ![VehicleModel] =
                    add_km_to_vehicle_edit(read_text(fsys[VehicleModel]))],
          out |-> <<Updating, Success>>, exit |-> ExitOk,
          reads |-> {VehicleModel}, writes |-> {VehicleModel}]

----------------------------------------------------------------------------
\* update_expense_schema.py

\* update_expense_schema.py:13-24 and 26-39, the two table texts as they are
\* laid out in the file
old_expenses_table ==
    <<L(4, "await db.execute('''"),
      L(6, "CREATE TABLE expenses("),
      L(8, "id INTEGER PRIMARY KEY AUTOINCREMENT,"),
      L(8, "description TEXT NOT NULL,"),
      L(8, "amount REAL NOT NULL,"),
      L(8, "amountR5 REAL DEFAULT 0,"),
      L(8, "amountR2 REAL DEFAULT 0,"),
      L(8, "amountR1 REAL DEFAULT 0,"),
      L(8, "amount50c REAL DEFAULT 0,"),
      L(8, "createdAt TEXT NOT NULL"),
      L(6, ")"),
      L(4, "''');")>>

new_expenses_table ==
    <<L(4, "await db.execute('''"),
      L(6, "CREATE TABLE expenses("),
      L(8, "id INTEGER PRIMARY KEY AUTOINCREMENT,"),
      L(8, "description TEXT NOT NULL,"),
      L(8, "notes REAL NOT NULL,"),
      L(8, "coins REAL NOT NULL,"),
      L(8, "amount REAL NOT NULL,"),
      L(8, "amountR5 REAL DEFAULT 0,"),
      L(8, "amountR2 REAL DEFAULT 0,"),
      L(8, "amountR1 REAL DEFAULT 0,"),
      L(8, "amount50c REAL DEFAULT 0,"),
      L(8, "createdAt TEXT NOT NULL"),
      L(6, ")"),
      L(4, "''');")>>

\* The string literal opened by ''' on line 13 is closed by the ''' of
\* `db.execute('''` on the same line, so line 14 is an indented statement
\* where none may stand: the interpreter rejects the file (IndentationError)
\* before it runs any statement, and ends with status 1.  Nothing is read,
\* written or printed to standard output.
update_expense_schema(fsys) ==
    [fs |-> fsys, out |-> <<CompileError>>, exit |-> ExitError,
     reads |-> {}, writes |-> {}]

----------------------------------------------------------------------------
\* fix_vehicles_table.py

\* fix_vehicles_table.py:16-36
new_vehicles_table ==
    <<L(4, "await db.execute('''"),
      L(6, "CREATE TABLE vehicles("),
      L(8, "id INTEGER PRIMARY KEY AUTOINCREMENT,"),
      L(8, "make TEXT NOT NULL,"),
      L(8, "model TEXT NOT NULL,"),
      L(8, "year INTEGER NOT NULL,"),
      L(8, "registrationNumber TEXT NOT NULL UNIQUE,"),
      L(8, "assignedDriverId INTEGER,"),
      L(8, "assignedDriverName TEXT,"),
      L(8, "licenseDiskExpiry TEXT,"),
      L(8, "lastRenewalDate TEXT,"),
      L(8, "diskNumber TEXT,"),
      L(8, "currentKm INTEGER DEFAULT 0,"),
      L(8, "lastServiceKm INTEGER DEFAULT 0,"),
      L(8, "serviceIntervalKm INTEGER DEFAULT 10000,"),
      L(8, "nextServiceKm INTEGER DEFAULT 10000,"),
      L(8, "createdAt TEXT NOT NULL,"),
      L(8, "updatedAt TEXT NOT NULL,"),
      L(8, "FOREIGN KEY (assignedDriverId) REFERENCES employees(id) ON DELETE SET NULL"),
      L(6, ")"),
      L(4, "''');")>>

\* a faulty variant of the loop: the line that ends the skipped part is kept
RECURSIVE fix_vehicles_table_keep_end(_, _, _)
fix_vehicles_table_keep_end(lines, i, skip_until_semicolon) ==
    IF i > Len(lines) THEN <<>>
    ELSE IF Has("CREATE TABLE vehicles(", lines[i])
    THEN new_vehicles_table \o fix_vehicles_table_keep_end(lines, i + 1, TRUE)
    ELSE IF skip_until_semicolon /\ ~Has("''')", lines[i])
    THEN fix_vehicles_table_keep_end(lines, i + 1, TRUE)
    ELSE <<lines[i]>> \o fix_vehicles_table_keep_end(lines, i + 1, FALSE)

\* fix_vehicles_table.py:11-45, the output lines for lines[i..]
RECURSIVE fix_vehicles_table_loop(_, _, _)
fix_vehicles_table_loop(lines, i, skip_until_semicolon) ==
    IF i > Len(lines) THEN <<>>
    ELSE IF Has("CREATE TABLE vehicles(", lines[i])
    THEN new_vehicles_table \o fix_vehicles_table_loop(lines, i + 1, TRUE)
    ELSE IF skip_until_semicolon
    THEN fix_vehicles_table_loop(lines, i + 1, ~Has("''')", lines[i]))
    ELSE <<lines[i]>> \o fix_vehicles_table_loop(lines, i + 1, FALSE)

fix_vehicles_table(lines) ==
    [content |-> fix_vehicles_table_loop(lines, 1, FALSE),
     write |-> TRUE,
     out |-> <<Success>>]

----------------------------------------------------------------------------
\* fix_expenses_table.py

\* fix_expenses_table.py:22-23; the two lines are written with '\r\n'
fix_expenses_table_fields ==
    <<WithCR(L(8, "notes REAL NOT NULL,")), WithCR(L(8, "coins REAL NOT NULL,"))>>

\* fix_expenses_table.py:14-26, the output lines for lines[i..]
RECURSIVE fix_expenses_table_loop(_, _, _, _)
fix_expenses_table_loop(lines, i, in_expenses_table, added_fields) ==
    IF i > Len(lines) THEN <<>>
    ELSE LET in_table == in_expenses_table \/ Has("CREATE TABLE expenses(", lines[i])
             add == /\ in_table
                    /\ Has("description TEXT NOT NULL,", lines[i])
                    /\ ~added_fields
         IN  <<lines[i]>>
               \o (IF add THEN fix_expenses_table_fields ELSE <<>>)
               \o fix_expenses_table_loop(lines, i + 1, in_table /\ ~add,
                                          added_fields \/ add)

fix_expenses_table(lines) ==
    [content |-> fix_expenses_table_loop(lines, 1, FALSE, FALSE),
     write |-> TRUE,
     out |-> <<Success>>]

----------------------------------------------------------------------------
\* update_db_coins.py

\* the texts of the lines that hold a match of `version: \d+,`
version_lines == {"version: 5,", "version: 6,", "version: 7,"}

\* re.sub(r'version: \d+,', 'version: 7,', content)
sub_version(content) ==
    [i \in 1..Len(content) |->
        IF content[i][2] \in version_lines
        THEN L(content[i][1], "version: 7,") ELSE content[i]]

\* the lines the replacements put between the last column and createdAt
coin_fields ==
    <<L(8, "amountR5 REAL DEFAULT 0,"), L(8, "amountR2 REAL DEFAULT 0,"),
      L(8, "amountR1 REAL DEFAULT 0,"), L(8, "amount50c REAL DEFAULT 0,")>>

\* `[^)]+`: the texts of the lines around a column list that hold no `)`
no_paren ==
    {"", "<nul>", "await db.execute('''", "CREATE TABLE income(", "CREATE TABLE expenses(",
     "id INTEGER PRIMARY KEY AUTOINCREMENT,", "description TEXT NOT NULL,",
     "notes REAL NOT NULL,", "coins REAL NOT NULL,", "total REAL NOT NULL,",
     "amount REAL NOT NULL,", "amountR5 REAL DEFAULT 0,", "amountR2 REAL DEFAULT 0,",
     "amountR1 REAL DEFAULT 0,", "amount50c REAL DEFAULT 0,",
     "createdAt TEXT NOT NULL", "createdAt TEXT NOT NULL,"} \cup version_lines

\* `\s+` across lines: the first line from i on that is not blank
RECURSIVE skip_blank(_, _)
skip_blank(lines, i) ==
    IF i <= Len(lines) /\ lines[i][2] = "" THEN skip_blank(lines, i + 1) ELSE i

\* the line of the last of the columns when they stand from line j on with
\* only white space between them, 0 when they do not
RECURSIVE columns_at(_, _, _, _)
columns_at(lines, j, columns, c) ==
    IF j > Len(lines) \/ lines[j][2] # columns[c] THEN 0
    ELSE IF c = Len(columns) THEN j
    ELSE columns_at(lines, skip_blank(lines, j + 1), columns, c + 1)

\* the first line after i that holds a `)`
RECURSIVE first_paren(_, _)
first_paren(lines, i) ==
    IF i < Len(lines) /\ lines[i + 1][2] \in no_paren
    THEN first_paren(lines, i + 1) ELSE i + 1

\* the lines after the opener at line i at which the columns start so that
\* the pattern matches: no `)` up to them, white space alone between them and
\* a line that starts with `createdAt TEXT NOT NULL`
pattern_starts(lines, i, columns) ==
    {j \in (i + 1)..(first_paren(lines, i) - 1) :
        LET last == columns_at(lines, j, columns, 1)
            k == skip_blank(lines, last + 1)
        IN  /\ last # 0
            /\ k <= Len(lines)
            /\ lines[k][2] \in {"createdAt TEXT NOT NULL", "createdAt TEXT NOT NULL,"}}

\* re.sub(pattern, replacement, content, flags=re.DOTALL) from line i on
RECURSIVE sub_coin_fields(_, _, _, _)
sub_coin_fields(lines, i, opener, columns) ==
    IF i > Len(lines) THEN <<>>
    ELSE IF lines[i][2] = opener /\ pattern_starts(lines, i, columns) # {}
    THEN LET starts == pattern_starts(lines, i, columns)
             j == CHOOSE x \in starts : \A y \in starts : y <= x
             last == columns_at(lines, j, columns, 1)
             k == skip_blank(lines, last + 1)
         IN  SubSeq(lines, i, last) \o coin_fields \o <<L(8, lines[k][2])>>
               \o sub_coin_fields(lines, k + 1, opener, columns)
    ELSE <<lines[i]>> \o sub_coin_fields(lines, i + 1, opener, columns)

update_db_coins(content) ==
    LET c1 == sub_version(content)
        \* income_pattern, expenses_pattern: the opener and the columns before createdAt
        c2 == sub_coin_fields(c1, 1, "CREATE TABLE income(",
                  <<"notes REAL NOT NULL,", "coins REAL NOT NULL,", "total REAL NOT NULL,">>)
        c3 == sub_coin_fields(c2, 1, "CREATE TABLE expenses(", <<"amount REAL NOT NULL,">>)
    IN  [content |-> c3, write |-> TRUE, out |-> <<Success>>]

----------------------------------------------------------------------------
\* Input files: the shapes of the target files the scripts were written for,
\* and variations of them

amount_line == L(8, "amount REAL NOT NULL,")

TableNames ==
    <<"CREATE TABLE employee_credits(", "CREATE TABLE invoices(",
      "CREATE TABLE payments(", "CREATE TABLE stock_movements(">>

ExpensesTable(hasAmount) ==
    <<L(4, "await db.execute('''"), L(6, "CREATE TABLE expenses("),
      L(8, "id INTEGER PRIMARY KEY AUTOINCREMENT,"), L(8, "description TEXT NOT NULL,")>>
    \o (IF hasAmount THEN <<amount_line>> ELSE <<>>)
    \o <<L(8, "createdAt TEXT NOT NULL"), L(6, ")"), L(4, "''');")>>

OtherTable(k) ==
    <<L(4, "await db.execute('''"), L(6, TableNames[k]),
      L(8, "id INTEGER PRIMARY KEY AUTOINCREMENT,"), amount_line,
      L(8, "createdAt TEXT NOT NULL"), L(6, ")"), L(4, "''');")>>

RECURSIVE OtherTables(_)
OtherTables(n) == IF n <= 0 THEN <<>> ELSE OtherTables(n - 1) \o OtherTable(n)

\* the tables of a file in which `amount REAL NOT NULL,` occurs a times
Tables(a) == ExpensesTable(a >= 1) \o OtherTables(a - 1)

RECURSIVE IncomeMethods(_)
IncomeMethods(m) ==
    IF m <= 0 THEN <<>>
    ELSE IncomeMethods(m - 1)
           \o <<L(2, "/// Get today's income"),
                L(2, "Future<double> getTodayIncome() async { ... }"), Blank>>

DbShapes == {"full", "guarded", "bare"}

DbFile(a, m, shape) ==
    CASE shape = "full" ->
           supplier_model_import \o fix_db_path_production_old_text
             \o Tables(a) \o IncomeMethods(m) \o <<L(0, "}")>>
      [] shape = "guarded" ->
           km_imports \o fix_db_path_production_old_text
             \o Tables(a) \o IncomeMethods(m) \o <<L(0, "}"), Blank>>
      [] shape = "bare" ->
           Tables(a) \o IncomeMethods(m) \o <<Code>>

DbInputs ==
    {DbFile(a, m, shape) : a \in 0..MaxCopies, m \in 0..MaxCopies, shape \in DbShapes}

\* the vehicles table before the KM columns (update_db_v6.py:13-29), with or
\* without the line that closes the statement
VehiclesTable(closed) ==
    <<L(4, "await db.execute('''"),
      L(6, "CREATE TABLE vehicles("),
      L(8, "id INTEGER PRIMARY KEY AUTOINCREMENT,"),
      L(8, "make TEXT NOT NULL,"),
      L(8, "model TEXT NOT NULL,"),
      L(8, "year INTEGER NOT NULL,"),
      L(8, "registrationNumber TEXT NOT NULL UNIQUE,"),
      L(8, "assignedDriverId INTEGER,"),
      L(8, "assignedDriverName TEXT,"),
      L(8, "licenseDiskExpiry TEXT,"),
      L(8, "lastRenewalDate TEXT,"),
      L(8, "diskNumber TEXT,"),
      L(8, "createdAt TEXT NOT NULL,"),
      L(8, "updatedAt TEXT NOT NULL,"),
      L(8, "FOREIGN KEY (assignedDriverId) REFERENCES employees(id) ON DELETE SET NULL"),
      L(6, ")")>>
    \o (IF closed THEN <<L(4, "''');")>> ELSE <<>>)

\* an expenses table without a description and without an amount column
ExpensesTableShort ==
    <<L(4, "await db.execute('''"), L(6, "CREATE TABLE expenses("),
      L(8, "id INTEGER PRIMARY KEY AUTOINCREMENT,"),
      L(8, "createdAt TEXT NOT NULL"), L(6, ")"), L(4, "''');")>>

\* a table other than expenses with a description and an amount column
DescribedTable ==
    <<L(4, "await db.execute('''"), L(6, TableNames[1]),
      L(8, "id INTEGER PRIMARY KEY AUTOINCREMENT,"), L(8, "description TEXT NOT NULL,"),
      amount_line, L(8, "createdAt TEXT NOT NULL"), L(6, ")"), L(4, "''');")>>

\* files with the old expenses table, with one or two vehicles tables, and
\* with an expenses table that lacks the columns a later table has
SchemaInputs ==
    { old_expenses_table \o VehiclesTable(TRUE) \o OtherTable(2) \o <<L(0, "}")>>,
      ExpensesTableShort \o DescribedTable \o VehiclesTable(FALSE) \o <<Code, L(0, "}")>>,
      DescribedTable \o ExpensesTable(TRUE) \o VehiclesTable(TRUE) \o <<Code>>,
      VehiclesTable(TRUE) \o ExpensesTable(TRUE),
      <<Code>> \o VehiclesTable(TRUE) \o <<Code>> \o VehiclesTable(FALSE) \o <<Code>> }

NotificationsMethod(n) ==
    <<L(2, "/// Navigate to Notifications Screen"),
      L(2, "void _navigateToNotifications() {")>>
    \o Rep(n, Code) \o <<L(2, "}"), Blank>>

\* the summary section with gap lines between the expenses card and `],`
SummarySection(gap) ==
    SubSeq(final_dashboard_fix_search_text, 1, 8) \o Rep(gap, Code)
      \o SubSeq(final_dashboard_fix_search_text, 9, 11)

\* the method after the summary section, with m lines of body
WelcomeSection(m) ==
    SubSeq(add_dashboard_breakdown_old_closing, 5, 6)
      \o <<L(2, "Widget _buildWelcomeSection() {")>> \o Rep(m, Code) \o <<L(2, "}")>>

\* imports: "stock", "both" (the cash_breakdown_screen import is there) or
\* "none"; notif: body lines of the notifications method, None for no method;
\* gap: as in SummarySection, None for no summary section; tail: as in
\* WelcomeSection
DashFile(v) ==
    (CASE v.imports = "stock" -> stock_screen_import
       [] v.imports = "both" -> stock_screen_import \o import_line
       [] OTHER -> <<>>)
    \o (IF v.appbar THEN <<Code>> \o add_settings_icon_old_text ELSE <<>>)
    \o (IF v.notif # None THEN NotificationsMethod(v.notif) ELSE <<>>)
    \o (IF v.gap # None THEN SummarySection(v.gap) ELSE <<>>)
    \o WelcomeSection(v.tail)
    \o <<L(0, "}")>>

DashBase == [imports |-> "stock", appbar |-> TRUE, notif |-> 4, gap |-> 0, tail |-> 3]

DashVariants ==
    {DashBase,
     [DashBase EXCEPT !.imports = "both"],
     [DashBase EXCEPT !.imports = "none"],
     [DashBase EXCEPT !.appbar = FALSE],
     [DashBase EXCEPT !.notif = None],
     [DashBase EXCEPT !.notif = 3],
     [DashBase EXCEPT !.gap = None],
     [DashBase EXCEPT !.gap = 4],
     [DashBase EXCEPT !.tail = 12],
     [DashBase EXCEPT !.tail = 0],
     [imports |-> "none", appbar |-> FALSE, notif |-> None, gap |-> None, tail |-> 0]}

DashInputs == {DashFile(v) : v \in DashVariants}

\* line counts of the part of dashboard_screen.dart before the modelled lines
DashPads == {0, 430}

SupplierScreenFile ==
    supplier_details_import \o <<Code>> \o suppliers_old_appbar \o <<Code>>

OrdersScreenFile ==
    create_order_import \o <<Code>> \o orders_old_appbar \o <<Code>>

StockScreenFile ==
    supplier_screen_import \o <<Code>> \o old_actions \o <<Code>>

EmployeeScreenFile ==
    employee_photo_import \o <<Code>> \o employees_old_appbar \o <<Code>>

SupplierReportFile ==
    <<Code, L(8, "title: 'Supplier Report',"), L(8, "summaryData: {"),
      Entry(10, "Total Suppliers", "suppliers.length.toString()"),
      Entry(10, "Total Invoices", "invoices.length.toString()"),
      L(8, "},"), Code>>

DriverReportFile ==
    <<Code, L(12, "// Get linked vehicle"), L(12, "if (orders.first.vehicleId != null) {"),
      L(14, "vehicle = await _dbHelper.getVehicleById(orders.first.vehicleId!);"),
      L(12, "}"), L(8, "title: 'Driver/Vehicle Orders Report',"),
      L(8, "summaryData: {"), Entry(10, "Total Orders", "orders.length.toString()"),
      L(8, "},"), Code>>

ScreenFile(path) ==
    CASE path = SupplierScreen -> SupplierScreenFile
      [] path = OrdersScreen -> OrdersScreenFile
      [] path = StockScreen -> StockScreenFile
      [] path = EmployeeScreen -> EmployeeScreenFile
      [] path = SupplierReportScreen -> SupplierReportFile
      [] path = DriverReportScreen -> DriverReportFile

\* vehicle_model.dart as add_km_to_vehicle expects it, with line feeds
VehicleModelLines ==
    <<L(0, "class Vehicle {"),
      L(2, "final String? diskNumber;           // Optional disk reference number"),
      L(0, ""),
      L(2, "/// Timestamp when the vehicle record was created."),
      L(2, "final DateTime createdAt;"),
      L(2, "Vehicle({"),
      L(4, "this.diskNumber,"),
      L(4, "DateTime? createdAt,"),
      L(2, "})  : createdAt = createdAt ?? DateTime.now(),"),
      L(8, "updatedAt = updatedAt ?? DateTime.now();"),
      L(2, "DiskStatus get diskStatus {"), Code, L(2, "}"),
      L(2, "Map<String, dynamic> toMap() {"),
      L(6, "'diskNumber': diskNumber,"),
      L(6, "'createdAt': createdAt.toIso8601String(),"),
      L(2, "}"),
      L(2, "factory Vehicle.fromMap(Map<String, dynamic> map) {"),
      L(6, "diskNumber: map['diskNumber'] as String?,"),
      L(6, "createdAt: DateTime.parse(map['createdAt'] as String),"),
      L(2, "}"),
      L(2, "Vehicle copyWith({"),
      L(4, "DateTime? licenseDiskExpiry,"),
      L(4, "DateTime? lastRenewalDate,"),
      L(4, "String? diskNumber,"),
      L(4, "DateTime? createdAt,"),
      L(2, "}) {"),
      L(6, "licenseDiskExpiry: licenseDiskExpiry ?? this.licenseDiskExpiry,"),
      L(6, "lastRenewalDate: lastRenewalDate ?? this.lastRenewalDate,"),
      L(6, "diskNumber: diskNumber ?? this.diskNumber,"),
      L(6, "createdAt: createdAt ?? this.createdAt,"),
      L(2, "}"),
      L(0, "}")>>

\* the same lines, each ending with carriage return + line feed
WithCRs(content) == [i \in 1..Len(content) |-> WithCR(content[i])]

\* vehicle_model.dart with CRLF line ends, with LF line ends, and a file that
\* holds nothing the script searches for
VehicleInputs ==
    {WithCRs(VehicleModelLines), VehicleModelLines, <<Code, Code>>}

\* the two files of each two-file script, in the order the script opens them
ScreenPairs ==
    {<<SupplierScreen, OrdersScreen>>, <<StockScreen, EmployeeScreen>>,
     <<SupplierReportScreen, DriverReportScreen>>}

\* file systems with both files of a pair, or only one of them; and with
\* both files holding nothing a script searches for
ScreenInputs ==
    UNION {
        {[f \in S |-> ScreenFile(f)] : S \in {{p[1], p[2]}, {p[1]}, {p[2]}}}
          \cup {[f \in {p[1], p[2]} |-> <<Code, Code>>]}
        : p \in ScreenPairs}

----------------------------------------------------------------------------
\* Script runs, one action per script

Procs == {1, 2}

\* early and alone are history: whether the process read before any process had
\* opened the file for writing, and whether it opened it while no other
\* process was writing it
Idle ==
    [pc |-> "idle", script |-> "", buf |-> <<>>, pos |-> 0, start |-> <<>>,
     opened |-> FALSE, early |-> FALSE, alone |-> FALSE]

\* the scripts that edit one file: the content, whether it is written, and
\* the messages printed
Script(name, content) ==
    CASE name = "add_expense_notes_coins" -> add_expense_notes_coins(content)
      [] name = "fix_db_path_production" -> fix_db_path_production(content)
      [] name = "add_cash_breakdown_method" -> add_cash_breakdown_method(content)
      [] name = "update_cash_breakdown" -> update_cash_breakdown(content)
      [] name = "add_km_db_methods" -> add_km_db_methods(content)
      [] name = "add_settings_icon" -> add_settings_icon(content)
      [] name = "final_dashboard_fix" -> final_dashboard_fix(content)
      [] name = "add_dashboard_breakdown" -> add_dashboard_breakdown(content)
      [] name = "add_settings_method" -> add_settings_method(content)
      [] name = "add_dashboard_card" -> add_dashboard_card(content)
      [] name = "remove_duplicates" -> remove_duplicates(content)
      [] name = "fix_vehicles_table" -> fix_vehicles_table(content)
      [] name = "fix_expenses_table" -> fix_expenses_table(content)
      [] name = "update_db_coins" -> update_db_coins(content)

\* open(path, 'r') ... open(path, 'w') of a script that edits one file;
\* open() of a file that does not exist raises FileNotFoundError
OnFile(fsys, path, name) ==
    IF path \notin DOMAIN fsys
    THEN [fs |-> fsys, out |-> <<Traceback>>, exit |-> ExitError,
          reads |-> {}, writes |-> {}]
    ELSE LET Result(r) ==
                 [fs |-> IF r.write THEN [fsys EXCEPT ![path] = r.content] ELSE fsys,
                  out |-> r.out,
                  exit |-> IF "exit" \in DOMAIN r THEN r.exit ELSE ExitOk,
                  reads |-> {path},
                  writes |-> IF r.write THEN {path} ELSE {}]
         IN  \* the file is read once: content is the value read
             CHOOSE res \in {Result(Script(name, content)) :
                               content \in {read_text(fsys[path])}} : TRUE

\* the state after a run of script `name` with result res
Finish(name, res) ==
    /\ fs' = res.fs
    /\ out' = res.out
    /\ exit' = res.exit
    /\ reads' = res.reads
    /\ writes' = res.writes
    /\ pre' = fs
    /\ log' = Append(log, name)
    /\ UNCHANGED <<orig, dashPad, procs>>

RunAddExpenseNotesCoins ==
    /\ Len(log) < MaxRuns
    /\ Finish("add_expense_notes_coins", OnFile(fs, DatabaseHelper, "add_expense_notes_coins"))

RunFixDbPathProduction ==
    /\ Len(log) < MaxRuns
    /\ Finish("fix_db_path_production", OnFile(fs, DatabaseHelper, "fix_db_path_production"))

RunAddCashBreakdownMethod ==
    /\ Len(log) < MaxRuns
    /\ Finish("add_cash_breakdown_method", OnFile(fs, DatabaseHelper, "add_cash_breakdown_method"))

RunUpdateCashBreakdown ==
    /\ Len(log) < MaxRuns
    /\ Finish("update_cash_breakdown", OnFile(fs, DatabaseHelper, "update_cash_breakdown"))

RunAddKmDbMethods ==
    /\ Len(log) < MaxRuns
    /\ Finish("add_km_db_methods", OnFile(fs, DatabaseHelper, "add_km_db_methods"))

RunAddSettingsIcon ==
    /\ Len(log) < MaxRuns
    /\ Finish("add_settings_icon", OnFile(fs, DashboardScreen, "add_settings_icon"))

RunFinalDashboardFix ==
    /\ Len(log) < MaxRuns
    /\ Finish("final_dashboard_fix", OnFile(fs, DashboardScreen, "final_dashboard_fix"))

RunAddDashboardBreakdown ==
    /\ Len(log) < MaxRuns
    /\ Finish("add_dashboard_breakdown", OnFile(fs, DashboardScreen, "add_dashboard_breakdown"))

RunAddSettingsMethod ==
    /\ Len(log) < MaxRuns
    /\ Finish("add_settings_method", OnFile(fs, DashboardScreen, "add_settings_method"))

RunAddDashboardCard ==
    /\ Len(log) < MaxRuns
    /\ Finish("add_dashboard_card", OnFile(fs, DashboardScreen, "add_dashboard_card"))

RunRemoveDuplicates ==
    /\ Len(log) < MaxRuns
    /\ Finish("remove_duplicates", OnFile(fs, DatabaseHelper, "remove_duplicates"))

RunAddKmToVehicle ==
    /\ Len(log) < MaxRuns
    /\ Finish("add_km_to_vehicle", add_km_to_vehicle(fs))

RunUpdateExpenseSchema ==
    /\ Len(log) < MaxRuns
    /\ Finish("update_expense_schema", update_expense_schema(fs))

RunFixVehiclesTable ==
    /\ Len(log) < MaxRuns
    /\ Finish("fix_vehicles_table", OnFile(fs, DatabaseHelper, "fix_vehicles_table"))

RunFixExpensesTable ==
    /\ Len(log) < MaxRuns
    /\ Finish("fix_expenses_table", OnFile(fs, DatabaseHelper, "fix_expenses_table"))

RunFixVehicleLookup ==
    /\ Len(log) < MaxRuns
    /\ Finish("fix_vehicle_lookup", fix_vehicle_lookup(fs))

RunAddFinalReports ==
    /\ Len(log) < MaxRuns
    /\ Finish("add_final_reports", add_final_reports(fs))

RunFixReports ==
    /\ Len(log) < MaxRuns
    /\ Finish("fix_reports", fix_reports(fs))

RunFixNewReports ==
    /\ Len(log) < MaxRuns
    /\ Finish("fix_new_reports", fix_new_reports(fs))

----------------------------------------------------------------------------
\* The specification of whole script runs

Init ==
    /\ \/ /\ \E c \in DbInputs \cup SchemaInputs : fs = (DatabaseHelper :> c)
          /\ dashPad = 0
       \/ /\ \E c \in DashInputs : fs = (DashboardScreen :> c)
          /\ dashPad \in DashPads
       \/ /\ fs \in ScreenInputs
          /\ dashPad = 0
       \/ /\ \E c \in VehicleInputs :
                fs = (VehicleModel :> c) @@ (DatabaseHelper :> DbFile(1, 1, "full"))
          /\ dashPad = 0
    /\ pre = fs
    /\ orig = fs
    /\ log = <<>>
    /\ out = <<>>
    /\ exit = ExitOk
    /\ reads = {}
    /\ writes = {}
    /\ procs = [p \in Procs |-> Idle]

Next ==
    \/ RunAddExpenseNotesCoins
    \/ RunFixDbPathProduction
    \/ RunAddCashBreakdownMethod
    \/ RunUpdateCashBreakdown
    \/ RunAddKmDbMethods
    \/ RunAddSettingsIcon
    \/ RunFinalDashboardFix
    \/ RunAddDashboardBreakdown
    \/ RunAddSettingsMethod
    \/ RunAddDashboardCard
    \/ RunRemoveDuplicates
    \/ RunAddKmToVehicle
    \/ RunUpdateExpenseSchema
    \/ RunFixVehiclesTable
    \/ RunFixExpensesTable
    \/ RunFixVehicleLookup
    \/ RunAddFinalReports
    \/ RunFixReports
    \/ RunFixNewReports

Spec == Init /\ [][Next]_vars

----------------------------------------------------------------------------
\* Properties of whole script runs (specification Spec)

\* the last run was a run of script `name`
Ran(name) == log # <<>> /\ log[Len(log)] = name

\* the last run was a run of `name` that found its target file
RanOn(name, path) == Ran(name) /\ path \in DOMAIN pre

notes_line == L(8, "notes REAL NOT NULL,")

\* C1: two runs of add_expense_notes_coins on a database_helper.dart that holds
\* the line `amount REAL NOT NULL,` leave the file as one run leaves it: the
\* first run changes the content and makes `notes REAL NOT NULL,` present, the
\* second run changes nothing.
C1_TwiceIsOnce ==
    (/\ log = <<"add_expense_notes_coins", "add_expense_notes_coins">>
     /\ DatabaseHelper \in DOMAIN orig
     /\ Occurs(add_expense_notes_coins_old_line, orig[DatabaseHelper]))
    => /\ pre[DatabaseHelper] # orig[DatabaseHelper]
       /\ Occurs(<<notes_line>>, pre[DatabaseHelper])
       /\ fs[DatabaseHelper] = pre[DatabaseHelper]

\* the locator, or the insertion point, of a script with a not-found branch
\* occurs in content
LocatorFound(name, content) ==
    CASE name = "add_settings_icon" -> Occurs(add_settings_icon_old_text, content)
      [] name = "fix_db_path_production" -> Occurs(fix_db_path_production_old_text, content)
      [] name = "final_dashboard_fix" -> Occurs(final_dashboard_fix_search_text, content)
      [] name = "add_cash_breakdown_method" -> Occurs(insertion_marker, content)
      [] name = "add_settings_method" -> add_settings_method_insert_index(content) # None
      [] name = "add_dashboard_card" -> add_dashboard_card_insert_index(content) # None

NotFoundScripts ==
    {"add_settings_icon", "fix_db_path_production", "final_dashboard_fix",
     "add_cash_breakdown_method", "add_settings_method", "add_dashboard_card"}

Target(name) ==
    IF name \in {"add_settings_icon", "final_dashboard_fix", "add_settings_method",
                 "add_dashboard_card", "add_dashboard_breakdown"}
    THEN DashboardScreen
    ELSE DatabaseHelper

\* C2: a script with a not-found branch whose locator / insertion point does
\* not occur in the target file reports 'could not find' and leaves the target
\* as it was, without opening it for writing.
C2_NotFoundLeavesFile ==
    \A name \in NotFoundScripts :
        (RanOn(name, Target(name)) /\ ~LocatorFound(name, pre[Target(name)]))
        => /\ out = <<Failure>>
           /\ fs = pre
           /\ writes = {}

C2_Witness ==
    /\ RanOn("add_settings_icon", DashboardScreen)
    /\ ~LocatorFound("add_settings_icon", pre[DashboardScreen])
    /\ out = <<Failure>>

\* C3: add_km_db_methods and add_dashboard_breakdown leave a target file that
\* already holds the guard substring ('km_record_model.dart', respectively
\* 'cash_breakdown_screen') exactly as it was.
C3_GuardedUnchanged ==
    /\ (RanOn("add_km_db_methods", DatabaseHelper)
          /\ HasLine("km_record_model.dart", pre[DatabaseHelper]))
       => fs[DatabaseHelper] = pre[DatabaseHelper]
    /\ (RanOn("add_dashboard_breakdown", DashboardScreen)
          /\ HasLine("cash_breakdown_screen", pre[DashboardScreen]))
       => fs[DashboardScreen] = pre[DashboardScreen]

Printed(message) == \E i \in 1..Len(out) : out[i] = message

\* C4: a script that ran to its end without any of its search targets
\* occurring in the target file (no substitution happened, the content is
\* unchanged) has printed a failure message and not its success message.
C4_NoTargetReportsFailure ==
    (log # <<>> /\ exit = ExitOk /\ fs = pre)
    => (Printed(Failure) /\ ~Printed(Success))

\* C5: add_expense_notes_coins on a database_helper.dart in which the locator
\* line `amount REAL NOT NULL,` occurs more than once fails and leaves the
\* file unpatched, rather than patching the first occurrence.
C5_AmbiguousMatchFails ==
    (RanOn("add_expense_notes_coins", DatabaseHelper)
       /\ Count(pre[DatabaseHelper], add_expense_notes_coins_old_line) > 1)
    => /\ ~Printed(Success)
       /\ fs[DatabaseHelper] = pre[DatabaseHelper]

cash_breakdown_call == <<L(8, "_buildCashBreakdownCard(),")>>

cash_breakdown_card_definition == <<L(2, "Widget _buildCashBreakdownCard() {")>>

breakdown_item_definition == <<L(2, "Widget _buildBreakdownItem({...}) {")>>

\* C6: add_dashboard_card never leaves dashboard_screen.dart half-patched:
\* after a run either the `_buildCashBreakdownCard(),` call and the
\* definitions of _buildCashBreakdownCard and _buildBreakdownItem have all been
\* written, or the file is as it was.
C6_NeverHalfPatched ==
    RanOn("add_dashboard_card", DashboardScreen)
    => \/ fs[DashboardScreen] = pre[DashboardScreen]
       \/ \A text \in {cash_breakdown_call, cash_breakdown_card_definition,
                       breakdown_item_definition} :
              Count(fs[DashboardScreen], text) = Count(pre[DashboardScreen], text) + 1

TwoFileScripts == {"add_final_reports", "fix_reports", "fix_new_reports"}

\* the file a two-file script edits first, and the one it edits second
FirstFile(name) ==
    CASE name = "add_final_reports" -> SupplierScreen
      [] name = "fix_reports" -> StockScreen
      [] name = "fix_new_reports" -> SupplierReportScreen

SecondFile(name) ==
    CASE name = "add_final_reports" -> OrdersScreen
      [] name = "fix_reports" -> EmployeeScreen
      [] name = "fix_new_reports" -> DriverReportScreen

FirstEdit(name, content) ==
    CASE name = "add_final_reports" -> add_final_reports_supplier(content)
      [] name = "fix_reports" -> fix_reports_stock(content)
      [] name = "fix_new_reports" -> fix_new_reports_supplier(content)

\* C7: a two-file script writes its first file before it opens the second:
\* when the second file cannot be opened the run aborts after the first file
\* was written, and the first file stays as the script edited it.
C7_FirstFileStaysModified ==
    \A name \in TwoFileScripts :
        (/\ Ran(name)
         /\ FirstFile(name) \in DOMAIN pre
         /\ SecondFile(name) \notin DOMAIN pre)
        => /\ exit = ExitError
           /\ out = <<Progress, Traceback>>
           /\ reads = {FirstFile(name)}
           /\ writes = {FirstFile(name)}
           /\ fs[FirstFile(name)] = FirstEdit(name, pre[FirstFile(name)])

C7_Witness ==
    \E name \in TwoFileScripts :
        /\ Ran(name)
        /\ FirstFile(name) \in DOMAIN pre
        /\ SecondFile(name) \notin DOMAIN pre
        /\ exit = ExitError
        /\ fs[FirstFile(name)] # pre[FirstFile(name)]

\* C8: update_cash_breakdown after add_cash_breakdown_method replaces every
\* inserted income-only getCashBreakdown by the income-minus-expenses version;
\* before it, it leaves database_helper.dart unchanged (the content as read,
\* written back); so the two orders end
\* in different files, the income-only version present in one and absent in
\* the other.
C8_OrderDependency ==
    LET old == update_cash_breakdown_old_method
        new == update_cash_breakdown_new_method
        add == "add_cash_breakdown_method"
        update == "update_cash_breakdown"
    IN  DatabaseHelper \in DOMAIN orig
        => /\ log = <<add, update>>
              => /\ ~Occurs(old, fs[DatabaseHelper])
                 /\ Count(fs[DatabaseHelper], new) = Count(pre[DatabaseHelper], old)
                 /\ Count(pre[DatabaseHelper], old)
                      = Count(orig[DatabaseHelper], insertion_marker)
           /\ (Ran(update) /\ ~Occurs(old, pre[DatabaseHelper]))
              => fs[DatabaseHelper] = read_text(pre[DatabaseHelper])
           /\ (log = <<update, add>> /\ Occurs(insertion_marker, orig[DatabaseHelper]))
              => /\ pre[DatabaseHelper] = orig[DatabaseHelper]
                 /\ Occurs(old, fs[DatabaseHelper])
                 /\ fs[DatabaseHelper]
                      # update_cash_breakdown(
                            add_cash_breakdown_method(orig[DatabaseHelper]).content).content

C8_Witness ==
    /\ log = <<"add_cash_breakdown_method", "update_cash_breakdown">>
    /\ DatabaseHelper \in DOMAIN orig
    /\ Count(pre[DatabaseHelper], update_cash_breakdown_old_method) > 1
    /\ Occurs(update_cash_breakdown_new_method, fs[DatabaseHelper])

ReplacementScripts == {"add_settings_icon", "fix_db_path_production", "final_dashboard_fix"}

Replacement(name) ==
    CASE name = "add_settings_icon" -> add_settings_icon_new_text
      [] name = "fix_db_path_production" -> fix_db_path_production_new_text
      [] name = "final_dashboard_fix" -> final_dashboard_fix_replace_text

Locator(name) ==
    CASE name = "add_settings_icon" -> add_settings_icon_old_text
      [] name = "fix_db_path_production" -> fix_db_path_production_old_text
      [] name = "final_dashboard_fix" -> final_dashboard_fix_search_text

\* C9: after a run of add_settings_icon, fix_db_path_production or
\* final_dashboard_fix on a target file in which the locator text occurs
\* exactly once, the replacement text occurs in the target file.
C9_ReplacementPresent ==
    \A name \in ReplacementScripts :
        (RanOn(name, Target(name)) /\ Count(pre[Target(name)], Locator(name)) = 1)
        => Occurs(Replacement(name), fs[Target(name)])

C9_Witness ==
    /\ RanOn("fix_db_path_production", DatabaseHelper)
    /\ Count(pre[DatabaseHelper], fix_db_path_production_old_text) = 1
    /\ Occurs(fix_db_path_production_new_text, fs[DatabaseHelper])
    /\ ~Occurs(fix_db_path_production_old_text, fs[DatabaseHelper])

----------------------------------------------------------------------------
\* The steps of one run: read the target, open it for writing, write the
\* buffered content out, close. Two processes may run scripts on the same
\* database_helper.dart, and a run may be interrupted between any two steps.
\* File positions are counted in lines.

\* the scripts run step by step; both write their target on every run
StepScripts == {"add_expense_notes_coins", "add_km_db_methods", "update_db_coins"}

\* a faulty variant: the script writes back the content as it read it
Patched_as_read(name, content) == content

\* the content the script holds after its replacements
Patched(name, content) == Script(name, content).content

\* the expenses table, with and without the `amount REAL NOT NULL,` line, as
\* the whole file, followed by the closing brace of the class, or after the
\* version of the schema
StepInputs ==
    {ExpensesTable(hasAmount) \o tail :
        hasAmount \in BOOLEAN, tail \in {<<>>, <<L(0, "}")>>}}
    \cup {<<L(6, "version: 6,")>> \o ExpensesTable(TRUE)}

\* a line of a hole left by a write beyond the end of the file
Nul == L(0, "<nul>")

\* a faulty variant: opening for writing keeps the content, as a write to another
\* file that is renamed over the target afterwards would
open_w_keep(fsys, path) == fsys

\* open(path, 'w'): the file is truncated
open_w(fsys, path) == [fsys EXCEPT ![path] = <<>>]

\* write(2) of data at line offset pos of the file
write_at(content, pos, data) ==
    IF Len(content) <= pos
    THEN content \o Rep(pos - Len(content), Nul) \o data
    ELSE SubSeq(content, 1, pos) \o data
           \o SubSeq(content, pos + Len(data) + 1, Len(content))

\* with open(path, 'r') as f: content = f.read(), and the replacements
StepRead(p) ==
    /\ procs[p].pc = "idle"
    /\ DatabaseHelper \in DOMAIN fs
    /\ \E name \in StepScripts :
          procs' = [procs EXCEPT ![p] =
                      [pc |-> "read", script |-> name,
                       buf |-> Patched(name, read_text(fs[DatabaseHelper])), pos |-> 0,
                       start |-> fs[DatabaseHelper], opened |-> FALSE,
                       early |-> \A q \in Procs : ~procs[q].opened, alone |-> FALSE]]
    /\ UNCHANGED <<fs, pre, orig, log, out, exit, reads, writes, dashPad>>

\* with open(path, 'w') as f
StepOpenW(p) ==
    /\ procs[p].pc = "read"
    /\ fs' = open_w(fs, DatabaseHelper)
    /\ procs' = [procs EXCEPT ![p].pc = "writing", ![p].opened = TRUE,
                               ![p].alone = \A q \in Procs \ {p} : procs[q].pc # "writing"]
    /\ UNCHANGED <<pre, orig, log, out, exit, reads, writes, dashPad>>

\* f.write(content): the content goes out through the file object's buffer,
\* BufferLines lines at a time, the rest when the file is closed
StepFlush(p) ==
    /\ procs[p].pc = "writing"
    /\ procs[p].pos < Len(procs[p].buf)
    /\ LET n == Min({procs[p].pos + BufferLines, Len(procs[p].buf)})
       IN  /\ fs' = [fs EXCEPT ![DatabaseHelper] =
                       write_at(@, procs[p].pos, SubSeq(procs[p].buf, procs[p].pos + 1, n))]
           /\ procs' = [procs EXCEPT ![p].pos = n]
    /\ UNCHANGED <<pre, orig, log, out, exit, reads, writes, dashPad>>

\* the end of the with block, and the print that follows it
StepClose(p) ==
    /\ procs[p].pc = "writing"
    /\ procs[p].pos = Len(procs[p].buf)
    /\ procs' = [procs EXCEPT ![p].pc = "done"]
    /\ log' = Append(log, procs[p].script)
    /\ out' = Append(out, Success)
    /\ UNCHANGED <<fs, pre, orig, exit, reads, writes, dashPad>>

\* the process is killed
StepInterrupt(p) ==
    /\ procs[p].pc \in {"read", "writing"}
    /\ procs' = [procs EXCEPT ![p].pc = "interrupted"]
    /\ UNCHANGED <<fs, pre, orig, log, out, exit, reads, writes, dashPad>>

InitSteps ==
    /\ \E c \in StepInputs : fs = (DatabaseHelper :> c)
    /\ dashPad = 0
    /\ pre = fs
    /\ orig = fs
    /\ log = <<>>
    /\ out = <<>>
    /\ exit = ExitOk
    /\ reads = {}
    /\ writes = {}
    /\ procs = [p \in Procs |-> Idle]

NextSteps ==
    \E p \in Procs :
        \/ StepRead(p)
        \/ StepOpenW(p)
        \/ StepFlush(p)
        \/ StepClose(p)
        \/ StepInterrupt(p)

SpecSteps == InitSteps /\ [][NextSteps]_vars

\* C10: a script overwrites its target in place: opening it for writing
\* truncates it and the content is then written into it, so a run interrupted
\* after the open and before the write is complete leaves the target holding
\* only the part written so far, which is neither the patched content nor,
\* while shorter than it, the content before the run.
C10_InPlaceOverwrite ==
    \A p \in Procs :
        (/\ procs[p].opened
         /\ procs[p].pc \in {"writing", "interrupted"}
         /\ \A q \in Procs \ {p} : ~procs[q].opened)
        => /\ fs[DatabaseHelper] = SubSeq(procs[p].buf, 1, procs[p].pos)
           /\ procs[p].pos < Len(procs[p].buf) => fs[DatabaseHelper] # procs[p].buf
           /\ procs[p].pos < Len(procs[p].start) => fs[DatabaseHelper] # procs[p].start

C10_Witness ==
    \E p \in Procs :
        /\ procs[p].pc = "interrupted"
        /\ procs[p].opened
        /\ procs[p].pos > 0
        /\ \A q \in Procs \ {p} : procs[q].pc = "idle"
        /\ fs[DatabaseHelper] # procs[p].start
        /\ fs[DatabaseHelper] # procs[p].buf

----------------------------------------------------------------------------
\* Further properties of whole script runs (specification Spec)

Paths(name) ==
    IF name \in TwoFileScripts THEN {FirstFile(name), SecondFile(name)}
    ELSE IF name = "add_km_to_vehicle" THEN {VehicleModel}
    ELSE IF name = "fix_vehicle_lookup" THEN {DriverReportScreen}
    ELSE {Target(name)}

\* C12: a script writes only fixed paths that it read in the same run: the
\* files written are among the files read, these are among the paths the
\* script names, no file is created or removed, and every file that was not
\* written is as it was before the run.
C12_WritesOnlyWhatItRead ==
    log # <<>> =>
        /\ writes \subseteq reads
        /\ reads \subseteq Paths(log[Len(log)])
        /\ DOMAIN fs = DOMAIN pre
        /\ \A f \in DOMAIN fs \ writes : fs[f] = pre[f]

\* a run that rewrote the vehicle model next to a file it did not touch
C12_Witness ==
    /\ Ran("add_km_to_vehicle")
    /\ writes = {VehicleModel}
    /\ fs[VehicleModel] # pre[VehicleModel]
    /\ DatabaseHelper \in DOMAIN fs

\* the lines of a file that contain the marker
LinesWith(marker, content) == {i \in 1..Len(content) : Has(marker, content[i])}

\* the file holds the KM section exactly once: one header line and one
\* addKmRecord line after it
OneKmSection(content) ==
    /\ Cardinality(LinesWith("KM TRACKING OPERATIONS", content)) = 1
    /\ Cardinality(LinesWith("Future<int> addKmRecord", content)) = 1
    /\ \A i \in LinesWith("KM TRACKING OPERATIONS", content) :
         \A j \in LinesWith("Future<int> addKmRecord", content) : i < j

\* C13: when database_helper.dart holds the KM section exactly once,
\* remove_duplicates reports 'No duplicates found', ends with status 0 and
\* leaves the file unchanged.
C13_SingleSectionUntouched ==
    (RanOn("remove_duplicates", DatabaseHelper) /\ OneKmSection(pre[DatabaseHelper])) =>
        /\ out = <<NoDuplicates>>
        /\ exit = ExitOk
        /\ fs = pre

----------------------------------------------------------------------------
\* Runs of add_km_db_methods and remove_duplicates on database_helper.dart

MaxKmRuns == 3

KmRunAddKmDbMethods ==
    /\ Len(log) < MaxKmRuns
    /\ Finish("add_km_db_methods", OnFile(fs, DatabaseHelper, "add_km_db_methods"))

KmRunRemoveDuplicates ==
    /\ Len(log) < MaxKmRuns
    /\ Finish("remove_duplicates", OnFile(fs, DatabaseHelper, "remove_duplicates"))

InitKm ==
    /\ \E c \in DbInputs : fs = (DatabaseHelper :> c)
    /\ dashPad = 0
    /\ pre = fs
    /\ orig = fs
    /\ log = <<>>
    /\ out = <<>>
    /\ exit = ExitOk
    /\ reads = {}
    /\ writes = {}
    /\ procs = [p \in Procs |-> Idle]

NextKm ==
    \/ KmRunAddKmDbMethods
    \/ KmRunRemoveDuplicates

SpecKm == InitKm /\ [][NextKm]_vars

\* the line of the header of the second KM section
SecondKmHeader(content) ==
    CHOOSE i \in LinesWith("KM TRACKING OPERATIONS", content) :
        \A j \in LinesWith("KM TRACKING OPERATIONS", content) : j <= i

\* C14: after two runs of add_km_db_methods, which leave two KM sections, one
\* run of remove_duplicates keeps everything up to the second KM section:
\* every line of the first section, its addKmRecord definition included, is
\* still in the file, and only the second copy is removed.
C14_FirstSectionKept ==
    (/\ log = <<"add_km_db_methods", "add_km_db_methods", "remove_duplicates">>
     /\ Cardinality(LinesWith("KM TRACKING OPERATIONS", pre[DatabaseHelper])) = 2) =>
        LET before == pre[DatabaseHelper]
            after == fs[DatabaseHelper]
            kept == SecondKmHeader(before) - 2
        IN  /\ Len(after) >= kept
            /\ SubSeq(after, 1, kept) = SubSeq(before, 1, kept)
            /\ Cardinality(LinesWith("KM TRACKING OPERATIONS", after)) = 1
            /\ Cardinality(LinesWith("Future<int> addKmRecord", after)) = 1

----------------------------------------------------------------------------
\* Properties of the schema scripts (specification Spec)

\* C15: a run of update_expense_schema on a database_helper.dart whose
\* expenses table is the old definition rewrites that table with the notes
\* and coins columns before the amount column and prints the success message.
C15_OldSchemaRewritten ==
    (/\ RanOn("update_expense_schema", DatabaseHelper)
     /\ Occurs(old_expenses_table, pre[DatabaseHelper])) =>
        /\ Occurs(new_expenses_table, fs[DatabaseHelper])
        /\ ~Occurs(old_expenses_table, fs[DatabaseHelper])
        /\ Printed(Success)

----------------------------------------------------------------------------
\* Properties of add_km_to_vehicle (specification Spec)

\* a line without its line end
Text(line) == L(line[1], line[2])

\* the lines that replacement k of add_km_to_vehicle adds to its locator
AddedLines(k) ==
    LET r == add_km_to_vehicle_replacements[k]
    IN  {Text(r.new[i]) : i \in 1..Len(r.new)} \ {Text(r.old[i]) : i \in 1..Len(r.old)}

\* a file with CRLF line ends that holds every locator of add_km_to_vehicle
CrlfVehicleModel(content) ==
    /\ \A i \in 1..Len(content) : HasCR(content[i])
    /\ \A k \in 1..Len(add_km_to_vehicle_replacements) :
         MatchesOpen(content, add_km_to_vehicle_replacements[k].old) # {}

\* C16: a run of add_km_to_vehicle on a vehicle_model.dart with CRLF line
\* ends adds the four KM members to the class fields, the constructor, toMap,
\* fromMap and copyWith.
C16_KmMembersAdded ==
    (/\ RanOn("add_km_to_vehicle", VehicleModel)
     /\ CrlfVehicleModel(pre[VehicleModel])) =>
        \A k \in 1..Len(add_km_to_vehicle_replacements) :
            \A l \in AddedLines(k) :
                \E i \in 1..Len(fs[VehicleModel]) : Text(fs[VehicleModel][i]) = l

----------------------------------------------------------------------------
\* Properties of fix_vehicles_table (specification Spec)

\* the vehicles table is written as one statement: the opener line, the
\* CREATE TABLE line, column lines and the closing line
VehiclesStatementAt(content, i) ==
    /\ i > 1
    /\ Has("CREATE TABLE vehicles(", content[i])
    /\ content[i - 1] = L(4, "await db.execute('''")
    /\ \E j \in (i + 1)..Len(content) : Has("''')", content[j])

\* the opener lines that stand directly before a CREATE TABLE vehicles( line,
\* with the opener lines directly before them
RECURSIVE OpenersBefore(_, _)
OpenersBefore(content, i) ==
    IF i > 1 /\ content[i - 1] = L(4, "await db.execute('''")
    THEN 1 + OpenersBefore(content, i - 1)
    ELSE 0

\* C17: on a file that holds the vehicles table as one statement, the output
\* of fix_vehicles_table has exactly one `await db.execute('''` opener for
\* the vehicles table, and a second run yields the same file as the first.
C17_OneOpenerAndIdempotent ==
    /\ (/\ RanOn("fix_vehicles_table", DatabaseHelper)
        /\ \E i \in 1..Len(pre[DatabaseHelper]) :
              /\ VehiclesStatementAt(pre[DatabaseHelper], i)
              /\ OpenersBefore(pre[DatabaseHelper], i) = 1) =>
          \A i \in LinesWith("CREATE TABLE vehicles(", fs[DatabaseHelper]) :
              OpenersBefore(fs[DatabaseHelper], i) = 1
    /\ (/\ log = <<"fix_vehicles_table", "fix_vehicles_table">>
        /\ \E i \in 1..Len(orig[DatabaseHelper]) :
              VehiclesStatementAt(orig[DatabaseHelper], i)) =>
          fs = pre

RECURSIVE Concat(_)
Concat(parts) ==
    IF parts = <<>> THEN <<>> ELSE parts[1] \o Concat(SubSeq(parts, 2, Len(parts)))

\* line k is neither a CREATE TABLE vehicles( line nor part of a replaced
\* statement: no such line precedes it, or a line containing ''') lies
\* between the last such line before k and k
Preserved(lines, k) ==
    /\ ~Has("CREATE TABLE vehicles(", lines[k])
    /\ \A i \in 1..(k - 1) :
         (/\ Has("CREATE TABLE vehicles(", lines[i])
          /\ \A m \in (i + 1)..(k - 1) : ~Has("CREATE TABLE vehicles(", lines[m]))
         => \E j \in (i + 1)..(k - 1) : Has("''')", lines[j])

\* C18: fix_vehicles_table keeps, in order, every line before a
\* `CREATE TABLE vehicles(` line and every line after the first following
\* line that contains ''') (lines as the script read them); the lines from
\* the CREATE TABLE line to that line give way to the new statement, and when
\* no line containing ''') follows, every remaining line is dropped.
C18_LinesOutsideStatementKept ==
    RanOn("fix_vehicles_table", DatabaseHelper) =>
        LET lines == read_text(pre[DatabaseHelper])
        IN  fs[DatabaseHelper] =
              Concat([k \in 1..Len(lines) |->
                        IF Has("CREATE TABLE vehicles(", lines[k]) THEN new_vehicles_table
                        ELSE IF Preserved(lines, k) THEN <<lines[k]>>
                        ELSE <<>>])

\* a run on a file with lines before the vehicles statement and after its
\* closing line, and a second vehicles statement that no line closes
C18_Witness ==
    /\ RanOn("fix_vehicles_table", DatabaseHelper)
    /\ LET lines == read_text(pre[DatabaseHelper])
       IN  /\ \E i, j, k \in 1..Len(lines) :
                /\ 1 < i /\ i < j /\ j < k
                /\ Has("CREATE TABLE vehicles(", lines[i])
                /\ Has("''')", lines[j])
                /\ Preserved(lines, k)
           /\ \E i \in 1..Len(lines) :
                /\ Has("CREATE TABLE vehicles(", lines[i])
                /\ \A j \in (i + 1)..Len(lines) : ~Has("''')", lines[j])
                /\ i + Len(VehiclesTable(FALSE)) - 1 < Len(lines)
    /\ fs # pre

----------------------------------------------------------------------------
\* Properties of the scripts that add the notes and coins columns
\* (specification Spec)

CreateTableLines ==
    {"CREATE TABLE expenses(", "CREATE TABLE vehicles("}
      \cup {TableNames[k] : k \in 1..Len(TableNames)}

\* the CREATE TABLE line of the statement that line i of the content is in,
\* "" for a line before the first statement
TableAt(content, i) ==
    LET S == {j \in 1..i : content[j][2] \in CreateTableLines}
    IN  IF S = {} THEN ""
        ELSE content[CHOOSE j \in S : \A m \in S : m <= j][2]

\* the lines of the content outside the expenses statement, in order
RECURSIVE OutsideExpenses(_, _)
OutsideExpenses(content, i) ==
    IF i > Len(content) THEN <<>>
    ELSE (IF TableAt(content, i) = "CREATE TABLE expenses(" THEN <<>> ELSE <<content[i]>>)
           \o OutsideExpenses(content, i + 1)

\* C19: on a file in which some table has the line `amount REAL NOT NULL,`,
\* add_expense_notes_coins changes only the expenses table: the line it
\* rewrites lies in the CREATE TABLE expenses( statement and the lines of
\* every other table are as they were.
C19_OnlyExpensesTableChanged ==
    (/\ RanOn("add_expense_notes_coins", DatabaseHelper)
     /\ HasLine("amount REAL NOT NULL,", pre[DatabaseHelper])) =>
        LET lines == read_text(pre[DatabaseHelper])
            rewritten == Min(LinesWith("amount REAL NOT NULL,", lines))
        IN  /\ fs[DatabaseHelper] =
                  SubSeq(lines, 1, rewritten - 1) \o add_expense_notes_coins_new_lines
                    \o SubSeq(lines, rewritten + 1, Len(lines))
            /\ TableAt(lines, rewritten) = "CREATE TABLE expenses("
            /\ OutsideExpenses(fs[DatabaseHelper], 1) = OutsideExpenses(lines, 1)

\* C20: fix_expenses_table inserts the notes and coins lines only directly
\* after a `description TEXT NOT NULL,` line of the CREATE TABLE expenses(
\* statement, never into a table that comes after the expenses table, also
\* when the expenses table has no description line.
C20_InsertedInExpensesTableOnly ==
    RanOn("fix_expenses_table", DatabaseHelper) =>
        LET after == fs[DatabaseHelper]
        IN  \A i \in 1..Len(after) :
                after[i] = fix_expenses_table_fields[1] =>
                    /\ i > 1
                    /\ Has("description TEXT NOT NULL,", after[i - 1])
                    /\ TableAt(after, i) = "CREATE TABLE expenses("

----------------------------------------------------------------------------
\* Properties of add_dashboard_card (specification Spec)

\* the insertion point of add_dashboard_card in the content, as a position in
\* the modelled lines: the `],` line that closes the children list, followed
\* by `);` and the `}` that closes _buildSummarySection; None when the script
\* finds none or the lines after it are others
SummarySectionEnd(content) ==
    LET insert_index == add_dashboard_card_insert_index(content)
        k == insert_index - dashPad + 1
    IN  IF /\ insert_index # None
           /\ insert_index # 0
           /\ k + 2 <= Len(content)
           /\ content[k + 1] = L(4, ");")
           /\ content[k + 2] = L(2, "}")
        THEN k
        ELSE None

\* C21: when add_dashboard_card finds its insertion point, followed by `);`
\* and the `}` that closes _buildSummarySection, it inserts the definition of
\* _buildCashBreakdownCard directly after that `}` line.
C21_MethodAfterSummarySection ==
    (/\ RanOn("add_dashboard_card", DashboardScreen)
     /\ SummarySectionEnd(read_text(pre[DashboardScreen])) # None) =>
        LET lines == read_text(pre[DashboardScreen])
            k == SummarySectionEnd(lines)
        IN  fs[DashboardScreen] =
              SubSeq(lines, 1, k - 1) \o add_dashboard_card_new_lines
                \o SubSeq(lines, k, k + 2) \o add_dashboard_card_method_code
                \o SubSeq(lines, k + 3, Len(lines))

----------------------------------------------------------------------------
\* Properties of the report screen scripts (specification Spec)

\* the vehicle lookup as driver_vehicle_orders_report_screen.dart has it
\* before fix_new_reports: the call is _dbHelper.getVehicleById
LookupById ==
    [fix_vehicle_lookup_old_code EXCEPT
        ![3] = L(14, "vehicle = await _dbHelper.getVehicleById(orders.first.vehicleId!);")]

\* C22: on a driver_vehicle_orders_report_screen.dart whose lookup calls
\* _dbHelper.getVehicleById, fix_new_reports and fix_vehicle_lookup do not
\* commute: after fix_new_reports, fix_vehicle_lookup removes the lookup
\* block; run first, fix_vehicle_lookup changes nothing, and after
\* fix_new_reports the file still holds the lookup, renamed to
\* _dbHelper.getVehicle.
C22_OrderOfReportFixes ==
    (/\ {SupplierReportScreen, DriverReportScreen} \subseteq DOMAIN orig
     /\ Occurs(LookupById, orig[DriverReportScreen])) =>
        /\ log = <<"fix_new_reports", "fix_vehicle_lookup">> =>
              /\ Occurs(fix_vehicle_lookup_old_code, pre[DriverReportScreen])
              /\ ~Occurs(fix_vehicle_lookup_old_code, fs[DriverReportScreen])
              /\ ~Occurs(LookupById, fs[DriverReportScreen])
              /\ Occurs(fix_vehicle_lookup_new_code, fs[DriverReportScreen])
        /\ log = <<"fix_vehicle_lookup">> => fs = orig /\ Printed(Progress)
        /\ log = <<"fix_vehicle_lookup", "fix_new_reports">> =>
              /\ pre = orig
              /\ Occurs(fix_vehicle_lookup_old_code, fs[DriverReportScreen])
              /\ ~Occurs(fix_vehicle_lookup_new_code, fs[DriverReportScreen])
              /\ fs[DriverReportScreen]
                   # fix_vehicle_lookup_edit(fix_new_reports_driver(orig[DriverReportScreen]))

\* the order that keeps the lookup
C22_Witness ==
    /\ log = <<"fix_vehicle_lookup", "fix_new_reports">>
    /\ {SupplierReportScreen, DriverReportScreen} \subseteq DOMAIN orig
    /\ Occurs(LookupById, orig[DriverReportScreen])
    /\ Occurs(fix_vehicle_lookup_old_code, fs[DriverReportScreen])

----------------------------------------------------------------------------
\* Properties of two scripts running at once on database_helper.dart

\* both scripts ran to their end, and each read the file before either had
\* opened it for writing
BothReadFirst ==
    /\ \A p \in Procs : procs[p].pc = "done" /\ procs[p].early
    /\ procs[1].script # procs[2].script

\* the process that closed the file last
LastWriter == CHOOSE p \in Procs : procs[p].script = log[Len(log)]

\* the content a script makes of the file as it was at the start
PatchOf(name) == Script(name, read_text(orig[DatabaseHelper])).content

\* the final file holds at line i what one of the two wrote there, or a hole
MixedLine(i) ==
    \/ fs[DatabaseHelper][i] = Nul
    \/ \E p \in Procs :
          i <= Len(procs[p].buf) /\ fs[DatabaseHelper][i] = procs[p].buf[i]

====
